---- MODULE Spec2Model ----
\* Order wizard of app/pages/pricing.vue (second <script setup> block):
\* the debounced search client, the posts cache, the three-stage stepper.
\* Texts are sequences of one-character strings so that trim, '@'-stripping
\* and lower-casing are computed, not assumed.
EXTENDS Integers, Sequences, FiniteSets, Bags, TLC

\* ---------------------------------------------------------------- constants
MIN_CHARS == 3
DEBOUNCE_MS == 300
SEARCH_CACHE_MS == 120000
CACHE_CLEANUP_INTERVAL == 300000
WATCH_MIN_CHARS == 2
POSTS_LIMIT == 12

\* ------------------------------------------------------------------- bounds
\* debounce windows the clock runs through inside one cache period
MaxFineSteps == 3
\* debounce windows the clock runs through while the whole wizard is explored
MaxWizardWindows == 1
\* cache periods the clock may run through
MaxCachePeriods == 3
\* search requests that may be pending together
MaxSearchRequests == 2
\* posts requests that may be pending together
MaxPostsRequests == 2
\* largest sum of the four quantities the user sets with the sliders
MaxOrderQuantity == 100

\* pending requests to /api/auth at a time
MaxAuthRequests == 2

\* calls of fetchProfile pending at a time
MaxProfileRequests == 2

Null == "null"

\* dataModel.user = null
NullUser == [id |-> 0, suffix |-> <<>>]

\* useState<User | null>('user'): null
NoAccount == [id |-> 0, name |-> "", email |-> ""]

\* the paths of the pages
PathHome == <<"/">>
PathLogin == <<"/", "l", "o", "g", "i", "n">>
PathSignup == <<"/", "s", "i", "g", "n", "u", "p">>
PathDashboard == <<"/", "d", "a", "s", "h", "b", "o", "a", "r", "d">>
PathProfile == PathDashboard \o <<"/", "p", "r", "o", "f", "i", "l", "e">>
PathPricing == <<"/", "p", "r", "i", "c", "i", "n", "g">>

\* the paths the user navigates to
Paths == {PathHome, PathLogin, PathSignup, PathDashboard, PathProfile, PathPricing}

\* no debounce timer pending
NoTimer == [query |-> <<>>, due |-> -1]

\* the cleanup interval after clearInterval
NoInterval == -1

\* searchAbort = null
NoController == 0

\* ------------------------------------------------------------ text helpers
IsSpace(c) == c = " "

RECURSIVE TrimStart(_)
TrimStart(s) ==
  IF Len(s) > 0 /\ IsSpace(Head(s)) THEN TrimStart(Tail(s)) ELSE s

RECURSIVE TrimEnd(_)
TrimEnd(s) ==
  IF Len(s) > 0 /\ IsSpace(s[Len(s)]) THEN TrimEnd(SubSeq(s, 1, Len(s) - 1)) ELSE s

\* String.prototype.trim
Trim(s) == TrimEnd(TrimStart(s))

\* .replace(/^@/, '')
StripAt(s) == IF Len(s) > 0 /\ Head(s) = "@" THEN Tail(s) ELSE s

LowerChar(c) ==
  CASE c = "A" -> "a"
    [] c = "B" -> "b"
    [] c = "C" -> "c"
    [] c = "D" -> "d"
    [] OTHER -> c

\* String.prototype.toLowerCase
ToLowerCase(s) == [i \in 1..Len(s) |-> LowerChar(s[i])]

\* query.trim().replace(/^@/, '')
SearchQuery(text) == StripAt(Trim(text))

\* [^\s@]+
IsLocalPart(s) ==
  /\ Len(s) > 0
  /\ \A i \in 1..Len(s) : ~IsSpace(s[i]) /\ s[i] # "@"

\* /^[^\s@]+@[^\s@]+\.[^\s@]+$/.test(email.trim())
isValidEmail(email) ==
  LET e == Trim(email) IN
  \E i \in 1..Len(e) : \E j \in 1..Len(e) :
    /\ i < j
    /\ e[i] = "@"
    /\ e[j] = "."
    /\ IsLocalPart(SubSeq(e, 1, i - 1))
    /\ IsLocalPart(SubSeq(e, i + 1, j - 1))
    /\ IsLocalPart(SubSeq(e, j + 1, Len(e)))

\* --------------------------------------------------------------- user input
TxtEmpty == <<>>
TxtAb == <<"a", "b">>
TxtAbc == <<"a", "b", "c">>
TxtAbcSp == <<"a", "b", "c", " ">>
TxtAtABC == <<"@", "A", "B", "C">>
TxtAbd == <<"a", "b", "d">>

\* what the user may type into the username field
UsernameTexts == {TxtEmpty, TxtAb, TxtAbc, TxtAbcSp, TxtAtABC, TxtAbd}

EmailEmpty == <<>>
EmailNoDot == <<"a", "@", "b">>
EmailOk == <<" ", "a", "@", "b", ".", "c">>

\* what the user may type into the email field
EmailTexts == {EmailEmpty, EmailNoDot, EmailOk}

\* ------------------------------------------------------ remote collaborators
User1 == [id |-> 1, suffix |-> TxtAbc]
User2 == [id |-> 2, suffix |-> TxtAbd]

\* GET /api/users/search/list?q=..&limit=8 : the answers the service may give
SearchResponses(q) ==
  LET k == ToLowerCase(q) IN
  IF k = TxtAbc THEN {<<User1>>, <<User1, User2>>}
  ELSE IF k = TxtAbd THEN {<<User2>>}
  ELSE {<<>>}

Post1 == [id |-> "p1", thumbnail |-> "t1", link_instagram |-> "l1", caption |-> "c1", selected |-> FALSE]
Post2 == [id |-> "p2", thumbnail |-> "t2", link_instagram |-> "l2", caption |-> "", selected |-> FALSE]
Post3 == [id |-> "p3", thumbnail |-> "t3", link_instagram |-> "", caption |-> "", selected |-> FALSE]

\* GET /api/users/posts?username=..&skip=..&limit=.. : the page of a user
PostsResponse(username, skip, limit) ==
  LET ps == IF username = TxtAbc THEN <<Post1, Post2>>
            ELSE IF username = TxtAbd THEN <<Post3>>
            ELSE <<>>
  IN [posts |-> ps, total |-> Len(ps), skip |-> skip, limit |-> limit]

\* statusCode of a failed posts fetch
PostsFailureStatus == {404, 429, 500}

\* ---------------------------------------------------------- slider options
Metrics == {"follows", "likes", "views", "comments"}

\* sliderOptions[m].ticks
Ticks(m) ==
  CASE m = "follows" -> <<0, 100, 250, 500, 1000, 2500, 5000, 10000, 25000, 50000>>
    [] m = "likes" -> <<0, 100, 500, 1000, 2500, 5000, 10000>>
    [] m = "views" -> <<0, 500, 1000, 5000, 10000, 25000, 50000>>
    [] m = "comments" -> <<0, 10, 50, 100, 250, 500, 1000>>

\* sliderOptions[m].price, in cents per thousand (0.10, 0.15, 0.05, 0.50 dollars)
PriceCents(m) ==
  CASE m = "follows" -> 10
    [] m = "likes" -> 15
    [] m = "views" -> 5
    [] m = "comments" -> 50

\* totalNumeric that leaves the comments out
totalNumericNoComments(dm) ==
  PriceCents("follows") * dm.follows + PriceCents("likes") * dm.likes
    + PriceCents("views") * dm.views

\* totalNumeric, in units of 1/100000 dollar
totalNumeric(dm) ==
  PriceCents("follows") * dm.follows + PriceCents("likes") * dm.likes
    + PriceCents("views") * dm.views + PriceCents("comments") * dm.comments

\* the amount under calculatePrice(quantity, pricePerThousand), before
\* formatCurrency, in units of 1/100000 dollar
calculatePrice(quantity, priceCents) == priceCents * quantity

\* ----------------------------------------------------------------- RangeInput
\* ticks.indexOf(value), 0-based, -1 when value is no tick
IndexOf(ticks, value) ==
  IF \E i \in 1..Len(ticks) : ticks[i] = value
  THEN (CHOOSE i \in 1..Len(ticks) :
          ticks[i] = value /\ \A j \in 1..(i - 1) : ticks[j] # value) - 1
  ELSE -1

\* updateIndex: the slider index shown for modelValue
updateIndex(ticks, modelValue) ==
  IF IndexOf(ticks, modelValue) # -1 THEN IndexOf(ticks, modelValue) ELSE 0

\* a slider that emits index * first step instead of the tick at the index
EmittedValueLinear(ticks, newIndex) == newIndex * ticks[2]

\* watch(currentIndex): the value emitted for slider index newIndex
EmittedValue(ticks, newIndex) == ticks[newIndex + 1]

\* -------------------------------------------------------------------- state
VARIABLES
  stepperActiveStep,      \* 0 user-info, 1 price-setting, 2 review-order
  dataModel,              \* the order draft
  isSelectingSuggestion,
  selectionError,
  postsLoading,
  postsModel,             \* the content page on display
  postsShared,            \* keys of the postsCache entries whose posts array is the displayed one
  postsCache,
  postsRequests,          \* bag of pending posts fetches
  searchSuggestions,
  searchLoading,
  showSuggestions,
  searchTimeout,          \* pending debounce timer: its query and due time
  searchAbort,            \* controller of the latest network lookup
  searchRequests,         \* pending, not aborted lookups
  searchCache,
  nextCleanup,            \* due time of the cache cleanup interval
  toast,                  \* notification the last step added (Null: none)
  now,                    \* Date.now()
  modalOpen,              \* the confirmation dialog is open, its result awaited
  condiciones,            \* the acknowledgment checkbox of the dialog
  error,                  \* the validation message of the dialog
  consoleLog,             \* what the last step wrote to the console
  dialogResult,           \* the result the dialog yielded in the last step (<<>>: none)
  mounted,                \* the page component is mounted
  user,                   \* useState('user'): the current user of the session
  authLoading,            \* useState('authLoading')
  authError,              \* useState('authError')
  route,                  \* path of the current route
  authCookie,             \* the browser holds the auth_token cookie
  authRequests,           \* bag of pending requests to /api/auth
  profileStep,            \* stepperActiveStep of poner-precio.vue
  profileModel,           \* dataModel of poner-precio.vue: email and username
  profileResult,
  profileLoading,
  profileError,
  profileRequests,        \* pending calls of fetchProfile, oldest first
  usernameFocused         \* the cursor is in the username field of poner-precio.vue

vars == <<stepperActiveStep, dataModel, isSelectingSuggestion, selectionError,
          postsLoading, postsModel, postsShared, postsCache, postsRequests,
          searchSuggestions, searchLoading, showSuggestions, searchTimeout,
          searchAbort, searchRequests, searchCache, nextCleanup, toast, now,
          modalOpen, condiciones, error, consoleLog, dialogResult, mounted,
          user, authLoading, authError, route, authCookie, authRequests,
          profileStep, profileModel, profileResult, profileLoading, profileError,
          profileRequests, usernameFocused>>

searchVars == <<searchSuggestions, searchLoading, showSuggestions, searchTimeout,
                searchAbort, searchRequests, searchCache>>

postsVars == <<postsLoading, postsModel, postsShared, postsCache, postsRequests>>

modalVars == <<modalOpen, condiciones, error>>

authVars == <<user, authLoading, authError, route, authCookie, authRequests>>

profileVars == <<profileStep, profileModel, profileResult, profileLoading, profileError,
                 profileRequests, usernameFocused>>

\* a step of the wizard page outside the confirmation dialog that is not its
\* teardown: it leaves the dialog and the session alone and writes nothing to
\* the console
PageStep ==
  /\ consoleLog' = <<>>
  /\ dialogResult' = <<>>
  /\ UNCHANGED <<modalVars, mounted, authVars, profileVars>>

EmptyPostsModel == [posts |-> <<>>, total |-> 0, skip |-> 0, limit |-> POSTS_LIMIT]

MaxNow == MaxCachePeriods * SEARCH_CACHE_MS + MaxFineSteps * DEBOUNCE_MS

Init ==
  /\ stepperActiveStep = 0
  /\ dataModel = [email |-> <<>>, username |-> <<>>, follows |-> 0, likes |-> 0,
                  views |-> 0, comments |-> 0, user |-> NullUser, selected_posts |-> <<>>]
  /\ isSelectingSuggestion = FALSE
  /\ selectionError = Null
  /\ postsLoading = FALSE
  /\ postsModel = EmptyPostsModel
  /\ postsShared = {}
  /\ postsCache = <<>>
  /\ postsRequests = EmptyBag
  /\ searchSuggestions = <<>>
  /\ searchLoading = FALSE
  /\ showSuggestions = FALSE
  /\ searchTimeout = NoTimer
  /\ searchAbort = NoController
  /\ searchRequests = {}
  /\ searchCache = <<>>
  /\ nextCleanup = CACHE_CLEANUP_INTERVAL
  /\ toast = Null
  /\ now = 0
  /\ modalOpen = FALSE
  /\ condiciones = FALSE
  /\ error = ""
  /\ consoleLog = <<>>
  /\ dialogResult = <<>>
  /\ mounted = TRUE
  /\ user = NoAccount
  /\ authLoading = FALSE
  /\ authError = Null
  /\ route = PathPricing
  /\ authCookie = FALSE
  /\ authRequests = EmptyBag
  /\ profileStep = 0
  /\ profileModel = [email |-> <<>>, username |-> <<>>]
  /\ profileResult = NullUser
  /\ profileLoading = FALSE
  /\ profileError = Null
  /\ profileRequests = <<>>
  /\ usernameFocused = FALSE

\* ------------------------------------------------------------ computed refs
normalizedUsername(dm) == StripAt(Trim(dm.username))

SelectedIndexes(pm) == {i \in 1..Len(pm.posts) : pm.posts[i].selected}

RECURSIVE FilterSelected(_)
FilterSelected(ps) ==
  IF ps = <<>> THEN <<>>
  ELSE IF Head(ps).selected THEN <<Head(ps)>> \o FilterSelected(Tail(ps))
  ELSE FilterSelected(Tail(ps))

selectedPosts(pm) == FilterSelected(pm.posts)

\* f with key k bound to v (Map.set)
MapSet(f, k, v) == [x \in DOMAIN f \cup {k} |-> IF x = k THEN v ELSE f[x]]

\* f without key k (Map.delete)
MapDelete(f, k) == [x \in DOMAIN f \ {k} |-> f[x]]

\* ------------------------------------------------------------ search client
\* AbortController.abort() on controller c: the pending request that carries
\* its signal is rejected with AbortError
AbortRequests(reqs, c) == {r \in reqs : r.ctl # c}

\* a pending request carries the signal of controller c
IsPending(reqs, c) == \E r \in reqs : r.ctl = c

\* new AbortController(): an object distinct from the controller old it
\* replaces and from those of the pending requests
NewController(reqs, old) ==
  CHOOSE c \in 1..(Cardinality(reqs) + 2) : ~IsPending(reqs, c) /\ c # old

\* CacheHit with the lifetime taken in seconds instead of milliseconds
CacheHitSeconds(cache, key, t) ==
  key \in DOMAIN cache /\ t - cache[key].t < SEARCH_CACHE_MS \div 1000

\* CacheHit that still serves an entry of age SEARCH_CACHE_MS exactly
CacheHitInclusive(cache, key, t) ==
  key \in DOMAIN cache /\ t - cache[key].t <= SEARCH_CACHE_MS

\* cached && Date.now() - cached.t < SEARCH_CACHE_MS
CacheHit(cache, key, t) ==
  key \in DOMAIN cache /\ t - cache[key].t < SEARCH_CACHE_MS

\* fetchSearchSuggestions that issues its request without aborting the
\* request of the previous controller
fetchSearchSuggestionsNoAbort(query) ==
  LET q == StripAt(Trim(query))
      cacheKey == ToLowerCase(q)
  IN
  IF Len(q) < MIN_CHARS THEN
    /\ searchSuggestions' = <<>>
    /\ showSuggestions' = FALSE
    /\ searchLoading' = FALSE
    /\ UNCHANGED <<searchAbort, searchRequests, searchCache>>
  ELSE IF CacheHit(searchCache, cacheKey, now) THEN
    /\ searchSuggestions' = searchCache[cacheKey].data
    /\ showSuggestions' = TRUE
    /\ searchLoading' = FALSE
    /\ UNCHANGED <<searchAbort, searchRequests, searchCache>>
  ELSE
    LET c == NewController(searchRequests, searchAbort) IN
    /\ Cardinality(searchRequests) < MaxSearchRequests
    /\ searchAbort' = c
    /\ searchRequests' = searchRequests \cup {[ctl |-> c, q |-> q, cacheKey |-> cacheKey]}
    /\ UNCHANGED <<searchLoading, searchSuggestions, showSuggestions, searchCache>>

\* fetchSearchSuggestions(query), up to the await of $fetch
fetchSearchSuggestions(query) ==
  LET q == StripAt(Trim(query))
      cacheKey == ToLowerCase(q)
  IN
  IF Len(q) < MIN_CHARS THEN
    /\ searchSuggestions' = <<>>
    /\ showSuggestions' = FALSE
    /\ searchLoading' = FALSE
    /\ UNCHANGED <<searchAbort, searchRequests, searchCache>>
  ELSE IF CacheHit(searchCache, cacheKey, now) THEN
    /\ searchSuggestions' = searchCache[cacheKey].data
    /\ showSuggestions' = TRUE
    /\ searchLoading' = FALSE
    /\ UNCHANGED <<searchAbort, searchRequests, searchCache>>
  ELSE
    LET kept == IF searchAbort # NoController
                THEN AbortRequests(searchRequests, searchAbort)
                ELSE searchRequests
        c == NewController(kept, searchAbort)
    IN
    /\ Cardinality(kept) < MaxSearchRequests
    /\ searchAbort' = c
    /\ searchRequests' = kept \cup {[ctl |-> c, q |-> q, cacheKey |-> cacheKey]}
       \* the aborted call's finally block runs before the next task
    /\ searchLoading' = IF kept # searchRequests THEN FALSE ELSE searchLoading
    /\ UNCHANGED <<searchSuggestions, showSuggestions, searchCache>>

\* SearchTimerFires that does not wait for the due time of the timer
SearchTimerFiresEarly ==
  /\ PageStep
  /\ searchTimeout # NoTimer
  /\ searchTimeout' = NoTimer
  /\ fetchSearchSuggestions(searchTimeout.query)
  /\ toast' = Null
  /\ UNCHANGED <<stepperActiveStep, dataModel, isSelectingSuggestion, selectionError,
                 postsVars, nextCleanup, now>>

\* the debounce timer fires: void fetchSearchSuggestions(query)
SearchTimerFires ==
  /\ PageStep
  /\ searchTimeout # NoTimer
  /\ now >= searchTimeout.due
  /\ searchTimeout' = NoTimer
  /\ fetchSearchSuggestions(searchTimeout.query)
  /\ toast' = Null
  /\ UNCHANGED <<stepperActiveStep, dataModel, isSelectingSuggestion, selectionError,
                 postsVars, nextCleanup, now>>

\* SearchResponse that also takes a single result as the chosen user
SearchResponseAutoSelect(r, res) ==
  /\ PageStep
  /\ r \in searchRequests
  /\ res \in SearchResponses(r.q)
  /\ searchRequests' = searchRequests \ {r}
  /\ searchSuggestions' = res
  /\ searchCache' = MapSet(searchCache, r.cacheKey, [t |-> now, data |-> res])
  /\ showSuggestions' = TRUE
  /\ searchLoading' = FALSE
  /\ toast' = Null
  /\ dataModel' = IF Len(res) = 1 THEN [dataModel EXCEPT !.user = res[1]] ELSE dataModel
  /\ UNCHANGED <<stepperActiveStep, isSelectingSuggestion, selectionError,
                 postsVars, searchTimeout, searchAbort, nextCleanup, now>>

\* $fetch resolves with res: the code after the await
SearchResponse(r, res) ==
  /\ PageStep
  /\ r \in searchRequests
  /\ res \in SearchResponses(r.q)
  /\ searchRequests' = searchRequests \ {r}
  /\ searchSuggestions' = res
  /\ searchCache' = MapSet(searchCache, r.cacheKey, [t |-> now, data |-> res])
  /\ showSuggestions' = TRUE
  /\ searchLoading' = FALSE
  /\ toast' = Null
  /\ UNCHANGED <<stepperActiveStep, dataModel, isSelectingSuggestion, selectionError,
                 postsVars, searchTimeout, searchAbort, nextCleanup, now>>

\* SearchFailure that keeps the list on display and reports the failure
SearchFailureReported(r) ==
  /\ PageStep
  /\ r \in searchRequests
  /\ searchRequests' = searchRequests \ {r}
  /\ searchLoading' = FALSE
  /\ toast' = "LOAD_POSTS_ERROR"
  /\ UNCHANGED <<stepperActiveStep, dataModel, isSelectingSuggestion, selectionError,
                 postsVars, searchSuggestions, showSuggestions, searchTimeout,
                 searchAbort, searchCache, nextCleanup, now>>

\* SearchFailure that caches the empty list for the key of the request
SearchFailureCached(r) ==
  /\ PageStep
  /\ r \in searchRequests
  /\ searchRequests' = searchRequests \ {r}
  /\ searchSuggestions' = <<>>
  /\ searchCache' = MapSet(searchCache, r.cacheKey, [t |-> now, data |-> <<>>])
  /\ searchLoading' = FALSE
  /\ toast' = Null
  /\ UNCHANGED <<stepperActiveStep, dataModel, isSelectingSuggestion, selectionError,
                 postsVars, showSuggestions, searchTimeout, searchAbort,
                 nextCleanup, now>>

\* $fetch rejects with an error other than AbortError
SearchFailure(r) ==
  /\ PageStep
  /\ r \in searchRequests
  /\ searchRequests' = searchRequests \ {r}
  /\ searchSuggestions' = <<>>
  /\ searchLoading' = FALSE
  /\ toast' = Null
  /\ UNCHANGED <<stepperActiveStep, dataModel, isSelectingSuggestion, selectionError,
                 postsVars, showSuggestions, searchTimeout, searchAbort, searchCache,
                 nextCleanup, now>>

\* CacheCleanup that empties the search cache
CacheCleanupClearAll ==
  /\ PageStep
  /\ nextCleanup # NoInterval
  /\ now >= nextCleanup
  /\ nextCleanup' = now + CACHE_CLEANUP_INTERVAL
  /\ searchCache' = [k \in {} |-> searchCache[k]]
  /\ toast' = Null
  /\ UNCHANGED <<stepperActiveStep, dataModel, isSelectingSuggestion, selectionError,
                 postsVars, searchSuggestions, searchLoading, showSuggestions,
                 searchTimeout, searchAbort, searchRequests, now>>

\* the setInterval callback that evicts old search-cache entries
CacheCleanup ==
  /\ PageStep
  /\ nextCleanup # NoInterval
  /\ now >= nextCleanup
  /\ nextCleanup' = now + CACHE_CLEANUP_INTERVAL
  /\ searchCache' = [k \in {x \in DOMAIN searchCache : ~(now - searchCache[x].t > SEARCH_CACHE_MS)}
                       |-> searchCache[k]]
  /\ toast' = Null
  /\ UNCHANGED <<stepperActiveStep, dataModel, isSelectingSuggestion, selectionError,
                 postsVars, searchSuggestions, searchLoading, showSuggestions,
                 searchTimeout, searchAbort, searchRequests, now>>

\* time passes: one debounce window, at most windows of them per cache period
Advance(windows) ==
  /\ PageStep
  /\ (now + DEBOUNCE_MS) % SEARCH_CACHE_MS <= windows * DEBOUNCE_MS
  /\ now' = now + DEBOUNCE_MS
  /\ toast' = Null
  /\ UNCHANGED <<stepperActiveStep, dataModel, isSelectingSuggestion, selectionError,
                 postsVars, searchVars, nextCleanup>>

\* time passes: one lifetime of a search-cache entry
AdvanceCachePeriod ==
  /\ PageStep
  /\ now + SEARCH_CACHE_MS <= MaxNow
  /\ now' = now + SEARCH_CACHE_MS
  /\ toast' = Null
  /\ UNCHANGED <<stepperActiveStep, dataModel, isSelectingSuggestion, selectionError,
                 postsVars, searchVars, nextCleanup>>

\* --------------------------------------------------------------- posts cache
\* a copy of the posts that keeps their selected flags
UnselectedKeep(ps) == ps

Unselected(ps) == [i \in 1..Len(ps) |-> [ps[i] EXCEPT !.selected = FALSE]]

\* fetchUserPosts that goes to the network whatever the posts cache holds
fetchUserPostsNoCache(dm, pm, sh) ==
  LET username == Trim(normalizedUsername(dm)) IN
  IF dm.user = NullUser THEN
    /\ toast' = "VALIDATE_USER"
    /\ postsModel' = pm
    /\ postsShared' = sh
    /\ UNCHANGED <<postsLoading, postsCache, postsRequests>>
  ELSE
    /\ BagCardinality(postsRequests) < MaxPostsRequests
    /\ postsLoading' = TRUE
    /\ postsRequests' = postsRequests (+)
         SetToBag({[username |-> username, skip |-> pm.skip, limit |-> pm.limit]})
    /\ postsModel' = pm
    /\ postsShared' = sh
    /\ toast' = Null
    /\ UNCHANGED postsCache

\* fetchUserPosts(), up to the await of $fetch, called with draft dm while the
\* page on display is pm (shared with the cache entries sh)
fetchUserPosts(dm, pm, sh) ==
  LET username == Trim(normalizedUsername(dm)) IN
  IF dm.user = NullUser THEN
    /\ toast' = "VALIDATE_USER"
    /\ postsModel' = pm
    /\ postsShared' = sh
    /\ UNCHANGED <<postsLoading, postsCache, postsRequests>>
  ELSE IF username \in DOMAIN postsCache THEN
    /\ postsModel' = [postsCache[username] EXCEPT !.posts = Unselected(@)]
    /\ postsShared' = {}
    /\ toast' = Null
    /\ UNCHANGED <<postsLoading, postsCache, postsRequests>>
  ELSE
    /\ BagCardinality(postsRequests) < MaxPostsRequests
    /\ postsLoading' = TRUE
    /\ postsRequests' = postsRequests (+)
         SetToBag({[username |-> username, skip |-> pm.skip, limit |-> pm.limit]})
    /\ postsModel' = pm
    /\ postsShared' = sh
    /\ toast' = Null
    /\ UNCHANGED postsCache

\* $fetch of the posts resolves: the code after the await
PostsResponded(r) ==
  /\ PageStep
  /\ BagIn(r, postsRequests)
  /\ postsRequests' = postsRequests (-) SetToBag({r})
  /\ LET res == PostsResponse(r.username, r.skip, r.limit)
         page == [res EXCEPT !.posts = Unselected(@)]
     IN /\ postsModel' = page
        /\ postsCache' = MapSet(postsCache, r.username, page)
        /\ postsShared' = {r.username}
  /\ postsLoading' = FALSE
  /\ toast' = Null
  /\ UNCHANGED <<stepperActiveStep, dataModel, isSelectingSuggestion, selectionError,
                 searchVars, nextCleanup, now>>

\* PostsErrorMessage that reports every failure as the generic load error
PostsErrorMessageGeneric(statusCode) == "LOAD_POSTS_ERROR"

\* the notification chosen for a failed posts fetch
PostsErrorMessage(statusCode) ==
  IF statusCode = 404 THEN "USER_NOT_FOUND"
  ELSE IF statusCode = 429 THEN "TOO_MANY_REQUESTS"
  ELSE "LOAD_POSTS_ERROR"

\* $fetch of the posts rejects with statusCode
PostsFailed(r, statusCode) ==
  /\ PageStep
  /\ BagIn(r, postsRequests)
  /\ statusCode \in PostsFailureStatus
  /\ postsRequests' = postsRequests (-) SetToBag({r})
  /\ toast' = PostsErrorMessage(statusCode)
  /\ postsLoading' = FALSE
  /\ UNCHANGED <<stepperActiveStep, dataModel, isSelectingSuggestion, selectionError,
                 postsModel, postsShared, postsCache, searchVars, nextCleanup, now>>

\* the Recargar button
ReloadPosts ==
  /\ PageStep
  /\ mounted
  /\ stepperActiveStep = 1
  /\ fetchUserPosts(dataModel, postsModel, postsShared)
  /\ UNCHANGED <<stepperActiveStep, dataModel, isSelectingSuggestion, selectionError,
                 searchVars, nextCleanup, now>>

\* the checkbox v-model="post.selected" of the i-th displayed post
TogglePost(i) ==
  /\ PageStep
  /\ mounted
  /\ stepperActiveStep = 1
  /\ ~postsLoading
  /\ i \in 1..Len(postsModel.posts)
  /\ postsModel' = [postsModel EXCEPT !.posts[i].selected = ~@]
  /\ postsCache' = [k \in DOMAIN postsCache |->
                      IF k \in postsShared
                      THEN [postsCache[k] EXCEPT !.posts[i].selected = ~@]
                      ELSE postsCache[k]]
  /\ toast' = Null
  /\ UNCHANGED <<stepperActiveStep, dataModel, isSelectingSuggestion, selectionError,
                 postsLoading, postsShared, postsRequests, searchVars, nextCleanup, now>>

\* ------------------------------------------------------------------- wizard
\* SelectionInvalidated that compares the text as typed, without trim()
SelectionInvalidatedUntrimmed(dm, value) ==
  dm.user # NullUser /\ value # dm.user.suffix

\* SelectionInvalidated that compares the normalized query with the suffix
SelectionInvalidatedNormalized(dm, value) ==
  dm.user # NullUser /\ ToLowerCase(StripAt(Trim(value))) # dm.user.suffix

\* the condition under which the username watcher drops the chosen user
SelectionInvalidated(dm, value) ==
  dm.user # NullUser /\ Trim(value) # dm.user.suffix

\* the user edits the username field to value: v-model writes
\* dataModel.username and the watcher on it runs
TypeUsername(value) ==
  /\ PageStep
  /\ mounted
  /\ stepperActiveStep = 0
  /\ value \in UsernameTexts
  /\ value # dataModel.username
  /\ ~isSelectingSuggestion
  /\ IF SelectionInvalidated(dataModel, value)
     THEN /\ dataModel' = [dataModel EXCEPT !.username = value, !.user = NullUser,
                                            !.selected_posts = <<>>]
          /\ selectionError' = Null
          /\ postsModel' = EmptyPostsModel
          /\ postsShared' = {}
     ELSE /\ dataModel' = [dataModel EXCEPT !.username = value]
          /\ UNCHANGED <<selectionError, postsModel, postsShared>>
  /\ LET query == StripAt(Trim(value)) IN
     IF Len(query) < WATCH_MIN_CHARS THEN
       /\ searchTimeout' = NoTimer
       /\ IF searchAbort # NoController
          THEN /\ searchRequests' = AbortRequests(searchRequests, searchAbort)
               /\ searchAbort' = NoController
          ELSE UNCHANGED <<searchRequests, searchAbort>>
       /\ searchSuggestions' = <<>>
       /\ showSuggestions' = FALSE
       /\ searchLoading' = FALSE
     ELSE
       /\ showSuggestions' = TRUE
       /\ searchLoading' = TRUE
       /\ searchTimeout' = [query |-> query, due |-> now + DEBOUNCE_MS]
       /\ UNCHANGED <<searchSuggestions, searchAbort, searchRequests>>
  /\ toast' = Null
  /\ UNCHANGED <<stepperActiveStep, isSelectingSuggestion, postsLoading, postsCache,
                 postsRequests, searchCache, nextCleanup, now>>

\* the suggestion buttons the dropdown renders
RenderedSuggestions ==
  IF showSuggestions /\ ~searchLoading
  THEN {searchSuggestions[i] : i \in 1..Len(searchSuggestions)}
  ELSE {}

\* selectSuggestion that leaves the page of the previous user on display
selectSuggestionKeepPage(item) ==
  /\ PageStep
  /\ mounted
  /\ stepperActiveStep = 0
  /\ item \in RenderedSuggestions
  /\ searchTimeout' = NoTimer
  /\ searchLoading' = FALSE
  /\ dataModel' = [dataModel EXCEPT !.username = item.suffix, !.user = item,
                                    !.selected_posts = <<>>]
  /\ selectionError' = Null
  /\ showSuggestions' = FALSE
  /\ searchSuggestions' = <<>>
  /\ isSelectingSuggestion' = FALSE
  /\ fetchUserPosts(dataModel', postsModel, postsShared)
  /\ UNCHANGED <<stepperActiveStep, searchAbort, searchRequests, searchCache,
                 nextCleanup, now>>

\* selectSuggestion(item), through the nextTick and the prefetch it starts
selectSuggestion(item) ==
  /\ PageStep
  /\ mounted
  /\ stepperActiveStep = 0
  /\ item \in RenderedSuggestions
  /\ searchTimeout' = NoTimer
  /\ searchLoading' = FALSE
  /\ dataModel' = [dataModel EXCEPT !.username = item.suffix, !.user = item,
                                    !.selected_posts = <<>>]
  /\ selectionError' = Null
  /\ showSuggestions' = FALSE
  /\ searchSuggestions' = <<>>
     \* the watcher runs inside nextTick and returns on isSelectingSuggestion
  /\ isSelectingSuggestion' = FALSE
  /\ fetchUserPosts(dataModel', EmptyPostsModel, {})
  /\ UNCHANGED <<stepperActiveStep, searchAbort, searchRequests, searchCache,
                 nextCleanup, now>>

\* the user edits the email field
TypeEmail(value) ==
  /\ PageStep
  /\ mounted
  /\ stepperActiveStep = 0
  /\ value \in EmailTexts
  /\ value # dataModel.email
  /\ dataModel' = [dataModel EXCEPT !.email = value]
  /\ toast' = Null
  /\ UNCHANGED <<stepperActiveStep, isSelectingSuggestion, selectionError, postsVars,
                 searchVars, nextCleanup, now>>

\* stepper.next() that jumps to the last stage
StepperNextSkip(step) == IF step < 2 THEN 2 ELSE step

\* stepper.next()
StepperNext(step) == IF step < 2 THEN step + 1 ELSE step

\* stepper.prev()
StepperPrevious(step) == IF step > 0 THEN step - 1 ELSE step

\* UserInfoError that accepts a typed username in place of a chosen user
UserInfoErrorTypedName(dm) ==
  IF Trim(dm.email) = <<>> THEN "EMPTY_EMAIL"
  ELSE IF ~isValidEmail(dm.email) THEN "INVALID_EMAIL"
  ELSE IF dm.user = NullUser /\ Trim(dm.username) = <<>> THEN "SELECT_USER"
  ELSE Null

\* UserInfoError without the test of the email's syntax
UserInfoErrorAnyEmail(dm) ==
  IF Trim(dm.email) = <<>> THEN "EMPTY_EMAIL"
  ELSE IF dm.user = NullUser THEN "SELECT_USER"
  ELSE Null

\* the three checks of verfyUserInfo, as the notification of the first that fails
UserInfoError(dm) ==
  IF Trim(dm.email) = <<>> THEN "EMPTY_EMAIL"
  ELSE IF ~isValidEmail(dm.email) THEN "INVALID_EMAIL"
  ELSE IF dm.user = NullUser THEN "SELECT_USER"
  ELSE Null

\* verfyUserInfo that leaves the loading of the posts to the Recargar button
verfyUserInfoNoFetch ==
  /\ PageStep
  /\ mounted
  /\ stepperActiveStep = 0
  /\ IF UserInfoError(dataModel) # Null THEN
       /\ toast' = UserInfoError(dataModel)
       /\ UNCHANGED <<stepperActiveStep, postsVars>>
     ELSE
       /\ stepperActiveStep' = StepperNext(stepperActiveStep)
       /\ toast' = Null
       /\ UNCHANGED postsVars
  /\ UNCHANGED <<dataModel, isSelectingSuggestion, selectionError, searchVars,
                 nextCleanup, now>>

\* submit of the user-info form
verfyUserInfo ==
  /\ PageStep
  /\ mounted
  /\ stepperActiveStep = 0
  /\ IF UserInfoError(dataModel) # Null THEN
       /\ toast' = UserInfoError(dataModel)
       /\ UNCHANGED <<stepperActiveStep, postsVars>>
     ELSE
       /\ stepperActiveStep' = StepperNext(stepperActiveStep)
       /\ IF Trim(normalizedUsername(dataModel)) \notin DOMAIN postsCache
          THEN fetchUserPosts(dataModel, postsModel, postsShared)
          ELSE toast' = Null /\ UNCHANGED postsVars
  /\ UNCHANGED <<dataModel, isSelectingSuggestion, selectionError, searchVars,
                 nextCleanup, now>>

\* PostTitle that prefers the link to the caption
PostTitleLinkFirst(post) ==
  IF post.link_instagram # "" THEN post.link_instagram
  ELSE IF post.caption # "" THEN post.caption
  ELSE "Post de Instagram"

\* post.caption || post.link_instagram || 'Post de Instagram'
PostTitle(post) ==
  IF post.caption # "" THEN post.caption
  ELSE IF post.link_instagram # "" THEN post.link_instagram
  ELSE "Post de Instagram"

\* the snapshot verifyForm takes of one selected post
SelectedPost(post) ==
  [url |-> post.link_instagram, title |-> PostTitle(post), thumbnail |-> post.thumbnail]

\* FormError without the check of the selected posts
FormErrorTotalOnly(dm, pm) ==
  IF totalNumeric(dm) <= 0 THEN "SELECT_SERVICE"
  ELSE Null

\* FormError without the check of the total
FormErrorPostsOnly(dm, pm) ==
  IF Len(selectedPosts(pm)) = 0 THEN "SELECT_POST"
  ELSE Null

\* the two checks of verifyForm, as the notification of the first that fails
FormError(dm, pm) ==
  IF Len(selectedPosts(pm)) = 0 THEN "SELECT_POST"
  ELSE IF totalNumeric(dm) <= 0 THEN "SELECT_SERVICE"
  ELSE Null

\* submit of the price-setting form
verifyForm ==
  /\ PageStep
  /\ mounted
  /\ stepperActiveStep = 1
  /\ IF FormError(dataModel, postsModel) # Null THEN
       /\ toast' = FormError(dataModel, postsModel)
       /\ UNCHANGED <<stepperActiveStep, dataModel>>
     ELSE
       /\ dataModel' = [dataModel EXCEPT !.selected_posts =
            [i \in 1..Len(selectedPosts(postsModel)) |-> SelectedPost(selectedPosts(postsModel)[i])]]
       /\ stepperActiveStep' = StepperNext(stepperActiveStep)
       /\ toast' = Null
  /\ UNCHANGED <<isSelectingSuggestion, selectionError, postsVars, searchVars,
                 nextCleanup, now>>

\* prev that clears what the later stages had collected
StepperPrevClearing ==
  /\ PageStep
  /\ mounted
  /\ stepperActiveStep \in {1, 2}
  /\ ~modalOpen
  /\ stepperActiveStep' = StepperPrevious(stepperActiveStep)
  /\ dataModel' = [dataModel EXCEPT !.selected_posts = <<>>]
  /\ toast' = Null
  /\ UNCHANGED <<isSelectingSuggestion, selectionError, postsVars,
                 searchVars, nextCleanup, now>>

\* the "Editar usuario" and "Editar el pedido" buttons
StepperPrev ==
  /\ PageStep
  /\ mounted
  /\ stepperActiveStep \in {1, 2}
  /\ ~modalOpen
  /\ stepperActiveStep' = StepperPrevious(stepperActiveStep)
  /\ toast' = Null
  /\ UNCHANGED <<dataModel, isSelectingSuggestion, selectionError, postsVars,
                 searchVars, nextCleanup, now>>

\* the user moves the slider of metric m from the index shown to newIndex:
\* RangeInput emits ticks[newIndex] and v-model writes it to the draft
MoveSlider(m, newIndex) ==
  /\ PageStep
  /\ mounted
  /\ stepperActiveStep = 1
  /\ m \in Metrics
  /\ newIndex \in 0..(Len(Ticks(m)) - 1)
  /\ newIndex # updateIndex(Ticks(m), dataModel[m])
  /\ dataModel' = [dataModel EXCEPT ![m] = EmittedValue(Ticks(m), newIndex)]
  /\ toast' = Null
  /\ UNCHANGED <<stepperActiveStep, isSelectingSuggestion, selectionError, postsVars,
                 searchVars, nextCleanup, now>>

\* MoveSlider within the order sizes the wizard specification explores
SetQuantity(m, index) ==
  /\ MoveSlider(m, index)
  /\ dataModel'.follows + dataModel'.likes + dataModel'.views + dataModel'.comments
       <= MaxOrderQuantity

\* ------------------------------------------------------- confirmation dialog
\* the console.log of handleConfirmOrder
OrderLog(dm) ==
  [email |-> dm.email, username |-> dm.username, follows |-> dm.follows,
   likes |-> dm.likes, views |-> dm.views, comments |-> dm.comments,
   total |-> totalNumeric(dm)]

\* handleConfirmOrder() up to the await: the "Confirmar pedido" button opens
\* a new instance of the dialog
handleConfirmOrder ==
  /\ mounted
  /\ stepperActiveStep = 2
  /\ ~modalOpen
  /\ modalOpen' = TRUE
  /\ condiciones' = FALSE
  /\ error' = ""
  /\ toast' = Null
  /\ consoleLog' = <<>>
  /\ dialogResult' = <<>>
  /\ UNCHANGED <<stepperActiveStep, dataModel, isSelectingSuggestion, selectionError,
                 postsVars, searchVars, nextCleanup, now, mounted, authVars, profileVars>>

\* handleConfirmOrder after the await without the test of the result
OrderResultUnchecked(shouldSendOrder) ==
  /\ toast' = "ORDER_CONFIRMED"
  /\ consoleLog' = <<OrderLog(dataModel)>>
  /\ UNCHANGED <<stepperActiveStep, dataModel, isSelectingSuggestion, selectionError,
                 postsVars, searchVars, nextCleanup, now, mounted, authVars, profileVars>>

\* OrderResult that starts the wizard over after a confirmed order
OrderResultRestart(shouldSendOrder) ==
  /\ IF ~shouldSendOrder
     THEN toast' = Null /\ consoleLog' = <<>> /\ UNCHANGED stepperActiveStep
     ELSE /\ toast' = "ORDER_CONFIRMED"
          /\ consoleLog' = <<OrderLog(dataModel)>>
          /\ stepperActiveStep' = 0
  /\ UNCHANGED <<dataModel, isSelectingSuggestion, selectionError,
                 postsVars, searchVars, nextCleanup, now, mounted, authVars, profileVars>>

\* handleConfirmOrder() after the await, with the result of the dialog
OrderResult(shouldSendOrder) ==
  /\ IF ~shouldSendOrder
     THEN toast' = Null /\ consoleLog' = <<>>
     ELSE toast' = "ORDER_CONFIRMED" /\ consoleLog' = <<OrderLog(dataModel)>>
  /\ UNCHANGED <<stepperActiveStep, dataModel, isSelectingSuggestion, selectionError,
                 postsVars, searchVars, nextCleanup, now, mounted, authVars, profileVars>>

\* emit('close', result): the dialog goes away with its refs and the awaiting
\* handleConfirmOrder resumes with the result
CloseModal(result) ==
  /\ modalOpen' = FALSE
  /\ condiciones' = FALSE
  /\ error' = ""
  /\ dialogResult' = <<result>>
  /\ OrderResult(result)

\* the acknowledgment checkbox and the watcher on it
ToggleCondiciones ==
  /\ modalOpen
  /\ condiciones' = ~condiciones
  /\ error' = IF condiciones' THEN "" ELSE error
  /\ toast' = Null
  /\ consoleLog' = <<>>
  /\ dialogResult' = <<>>
  /\ UNCHANGED <<modalOpen, stepperActiveStep, dataModel, isSelectingSuggestion,
                 selectionError, postsVars, searchVars, nextCleanup, now, mounted, authVars, profileVars>>

\* handleConfirm that closes the dialog with true whatever the checkbox says
handleConfirmUnchecked ==
  /\ modalOpen
  /\ CloseModal(TRUE)

\* the Confirmar button of the dialog
handleConfirm ==
  /\ modalOpen
  /\ IF ~condiciones THEN
       /\ error' = "ACCEPT_CONDITIONS"
       /\ toast' = Null
       /\ consoleLog' = <<>>
       /\ dialogResult' = <<>>
       /\ UNCHANGED <<modalOpen, condiciones, stepperActiveStep, dataModel,
                      isSelectingSuggestion, selectionError, postsVars, searchVars,
                      nextCleanup, now, mounted, authVars, profileVars>>
     ELSE CloseModal(TRUE)

\* the Cancelar button and the close button of the dialog
CancelModal ==
  /\ modalOpen
  /\ CloseModal(FALSE)

\* ----------------------------------------------------------------- teardown
\* onUnmounted: the debounce timer and the cleanup interval are cleared and
\* the latest lookup is aborted; pending posts fetches are left alone
onUnmounted ==
  /\ mounted
  /\ mounted' = FALSE
  /\ searchTimeout' = NoTimer
  /\ IF searchAbort # NoController
     THEN /\ searchRequests' = AbortRequests(searchRequests, searchAbort)
             \* the aborted call's finally block
          /\ searchLoading' = IF IsPending(searchRequests, searchAbort)
                              THEN FALSE ELSE searchLoading
     ELSE UNCHANGED <<searchRequests, searchLoading>>
  /\ nextCleanup' = NoInterval
  /\ toast' = Null
  /\ consoleLog' = <<>>
  /\ dialogResult' = <<>>
  /\ UNCHANGED <<stepperActiveStep, dataModel, isSelectingSuggestion, selectionError,
                 postsVars, searchSuggestions, showSuggestions, searchAbort,
                 searchCache, now, modalVars, authVars, profileVars>>

\* ------------------------------------------------------------------ session
\* the account the mock API knows
DemoUser == [id |-> 1, name |-> "Demo User", email |-> "demo@example.com"]

\* what the login form submits
LoginInputs ==
  {[email |-> "demo@example.com", password |-> "password"],
   [email |-> "demo@example.com", password |-> "12345678"]}

\* String.prototype.startsWith
StartsWith(text, prefix) ==
  Len(text) >= Len(prefix) /\ SubSeq(text, 1, Len(prefix)) = prefix

\* isAuthenticated: !!user.value
isAuthenticated(usr) == usr # NoAccount

\* AuthMiddleware that protects the path /dashboard itself only
AuthMiddlewareExact(to, usr) ==
  IF to = PathDashboard /\ ~isAuthenticated(usr) THEN PathLogin
  ELSE IF to \in {PathLogin, PathSignup} /\ isAuthenticated(usr) THEN PathDashboard
  ELSE to

\* the global route middleware: the path it redirects a navigation to, or
\* the target itself where it lets the navigation pass
AuthMiddleware(to, usr) ==
  IF StartsWith(to, PathDashboard) /\ ~isAuthenticated(usr) THEN PathLogin
  ELSE IF to \in {PathLogin, PathSignup} /\ isAuthenticated(usr) THEN PathDashboard
  ELSE to

\* navigateTo(to): the route the navigation ends at; a redirect is a
\* navigation of its own and passes the middleware again
RECURSIVE navigateTo(_, _)
navigateTo(to, usr) ==
  IF AuthMiddleware(to, usr) = to THEN to
  ELSE navigateTo(AuthMiddleware(to, usr), usr)

\* a step of the session: it leaves the wizard page and the dialog alone
AuthStep ==
  /\ consoleLog' = <<>>
  /\ dialogResult' = <<>>
  /\ UNCHANGED <<stepperActiveStep, dataModel, isSelectingSuggestion, selectionError,
                 postsVars, searchVars, nextCleanup, now, modalVars, mounted, profileVars>>

\* the user follows a link or enters a path
Navigate(to) ==
  /\ AuthStep
  /\ to \in Paths
  /\ route' = navigateTo(to, user)
  /\ toast' = Null
  /\ UNCHANGED <<user, authLoading, authError, authCookie, authRequests>>

\* login(email, password) up to the await of $fetch
login(input) ==
  /\ AuthStep
  /\ route = PathLogin
  /\ BagCardinality(authRequests) < MaxAuthRequests
  /\ authLoading' = TRUE
  /\ authError' = Null
  /\ authRequests' = authRequests (+) SetToBag({[kind |-> "login", input |-> input]})
  /\ toast' = Null
  /\ UNCHANGED <<user, route, authCookie>>

\* POST /api/auth/login answers and login() resumes; onSubmit of the login
\* page reports a failure
LoginResponse(r) ==
  /\ AuthStep
  /\ BagIn(r, authRequests)
  /\ r.kind = "login"
  /\ authRequests' = authRequests (-) SetToBag({r})
  /\ IF r.input.email = "demo@example.com" /\ r.input.password = "password"
     THEN /\ authCookie' = TRUE
          /\ user' = DemoUser
          /\ toast' = "WELCOME_BACK"
          /\ UNCHANGED authError
     ELSE /\ authError' = "Invalid email or password"
          /\ toast' = "LOGIN_FAILED"
          /\ UNCHANGED <<authCookie, user>>
  /\ authLoading' = FALSE
  /\ UNCHANGED route

\* fetchUser() up to the await: onMounted of a component that calls useAuth
fetchUser ==
  /\ AuthStep
  /\ BagCardinality(authRequests) < MaxAuthRequests
  /\ authRequests' = authRequests (+) SetToBag({[kind |-> "me", input |-> <<>>]})
  /\ toast' = Null
  /\ UNCHANGED <<user, authLoading, authError, route, authCookie>>

\* GET /api/auth/me answers: the user of the cookie, or 401 without it
MeResponse(r) ==
  /\ AuthStep
  /\ BagIn(r, authRequests)
  /\ r.kind = "me"
  /\ authRequests' = authRequests (-) SetToBag({r})
  /\ user' = IF authCookie THEN DemoUser ELSE NoAccount
  /\ toast' = Null
  /\ UNCHANGED <<authLoading, authError, route, authCookie>>

\* logout() up to the await: "Sign out" of the user menu, shown to a signed-in
\* user, or the button of the profile page
logout ==
  /\ AuthStep
  /\ isAuthenticated(user) \/ route = PathProfile
  /\ BagCardinality(authRequests) < MaxAuthRequests
  /\ authRequests' = authRequests (+) SetToBag({[kind |-> "logout", input |-> <<>>]})
  /\ toast' = Null
  /\ UNCHANGED <<user, authLoading, authError, route, authCookie>>

\* LogoutResponse that redirects before it clears the current user
LogoutResponseRedirectFirst(r, reached) ==
  /\ AuthStep
  /\ BagIn(r, authRequests)
  /\ r.kind = "logout"
  /\ reached \in BOOLEAN
  /\ authRequests' = authRequests (-) SetToBag({r})
  /\ IF reached /\ authCookie
     THEN authCookie' = FALSE /\ toast' = "LOGGED_OUT"
     ELSE authCookie' = authCookie /\ toast' = Null
  /\ route' = navigateTo(PathLogin, user)
  /\ user' = NoAccount
  /\ UNCHANGED <<authLoading, authError>>

\* POST /api/auth/logout is over and logout() resumes: the server deleted
\* the cookie, or answered 401 for want of one, or was not reached
LogoutResponse(r, reached) ==
  /\ AuthStep
  /\ BagIn(r, authRequests)
  /\ r.kind = "logout"
  /\ reached \in BOOLEAN
  /\ authRequests' = authRequests (-) SetToBag({r})
  /\ IF reached /\ authCookie
     THEN authCookie' = FALSE /\ toast' = "LOGGED_OUT"
     ELSE authCookie' = authCookie /\ toast' = Null
  /\ user' = NoAccount
  /\ route' = navigateTo(PathLogin, user')
  /\ UNCHANGED <<authLoading, authError>>

\* the auth_token cookie reaches its maxAge
CookieExpires ==
  /\ AuthStep
  /\ authCookie
  /\ authCookie' = FALSE
  /\ toast' = Null
  /\ UNCHANGED <<user, authLoading, authError, route, authRequests>>

\* ------------------------------------------------------------ specification
\* typing and the lookups it causes
Lookups ==
  \/ \E value \in UsernameTexts : TypeUsername(value)
  \/ SearchTimerFires
  \/ \E r \in searchRequests : \E res \in SearchResponses(r.q) : SearchResponse(r, res)
  \/ \E r \in searchRequests : SearchFailure(r)

\* picking from the dropdown and the posts fetches
Posts ==
  \/ \E item \in {User1, User2} : selectSuggestion(item)
  \/ \E r \in BagToSet(postsRequests) : PostsResponded(r)
  \/ \E r \in BagToSet(postsRequests) : \E c \in PostsFailureStatus : PostsFailed(r, c)

\* the forms of the three stages
Forms ==
  \/ \E value \in EmailTexts : TypeEmail(value)
  \/ verfyUserInfo
  \/ ReloadPosts
  \/ \E i \in 1..Len(postsModel.posts) : TogglePost(i)
  \/ \E m \in Metrics : \E index \in 0..(Len(Ticks(m)) - 1) : SetQuantity(m, index)
  \/ verifyForm
  \/ StepperPrev
  \/ handleConfirmOrder
  \/ ToggleCondiciones
  \/ handleConfirm
  \/ CancelModal

\* the whole wizard during the first debounce windows of a session
Next == Lookups \/ Posts \/ Forms \/ Advance(MaxWizardWindows)

Spec == Init /\ [][Next]_vars

\* the user-info stage: search client, dropdown and prefetch
NextSelect == Lookups \/ Posts \/ Advance(MaxFineSteps)

SpecSelect == Init /\ [][NextSelect]_vars

\* the search client over the lifetime of its cache entries
NextSearch == Lookups \/ Advance(MaxFineSteps) \/ AdvanceCachePeriod \/ CacheCleanup

SpecSearch == Init /\ [][NextSearch]_vars

\* the user-info stage and the timers until and after the page is left
NextTeardown ==
  \/ \E value \in UsernameTexts : TypeUsername(value)
  \/ SearchTimerFires
  \/ \E r \in searchRequests : \E res \in SearchResponses(r.q) : SearchResponse(r, res)
  \/ \E item \in {User1, User2} : selectSuggestion(item)
  \/ \E r \in BagToSet(postsRequests) : PostsResponded(r)
  \/ Advance(MaxWizardWindows)
  \/ AdvanceCachePeriod
  \/ CacheCleanup
  \/ onUnmounted

SpecTeardown == Init /\ [][NextTeardown]_vars

\* the session: signing in and out and moving between the pages
NextAuth ==
  \/ \E to \in Paths : Navigate(to)
  \/ \E input \in LoginInputs : login(input)
  \/ \E r \in BagToSet(authRequests) : LoginResponse(r)
  \/ fetchUser
  \/ \E r \in BagToSet(authRequests) : MeResponse(r)
  \/ logout
  \/ \E r \in BagToSet(authRequests) : \E reached \in BOOLEAN : LogoutResponse(r, reached)
  \/ CookieExpires

SpecAuth == Init /\ [][NextAuth]_vars

\* ------------------------------------------- blur-validated wizard variant
\* what the visitor types into the username field of poner-precio.vue
TxtAt == <<"@">>
TxtAtAbd == <<"@", "a", "b", "d">>
ProfileTexts == {TxtEmpty, TxtAt, TxtAbc, TxtAbd, TxtAtAbd}

ProfileEmails == {EmailEmpty, EmailOk}

\* the profile the users API holds for a handle (NullUser: none)
ProfileOf(q) ==
  IF q = User1.suffix THEN User1
  ELSE IF q = User2.suffix THEN User2
  ELSE NullUser

\* outcomes of GET /api/users/search?q: the profile, or a rejection
ProfileResponses(q) ==
  IF ProfileOf(q) = NullUser THEN {<<>>} ELSE {<<ProfileOf(q)>>, <<>>}

\* normalizedUsername.value.trim() of poner-precio.vue
ProfileQuery(dm) == Trim(StripAt(Trim(dm.username)))

\* a step of poner-precio.vue: it leaves the other pages and the session alone
ProfileStep ==
  /\ consoleLog' = <<>>
  /\ dialogResult' = <<>>
  /\ UNCHANGED <<stepperActiveStep, dataModel, isSelectingSuggestion, selectionError,
                 postsVars, searchVars, nextCleanup, now, modalVars, mounted,
                 authVars>>

\* the synchronous part of fetchProfile: the states are cleared and, for a
\* non-empty handle, the request is issued; awaited tells whether
\* verfyUserInfo waits for the call
fetchProfileCall(awaited) ==
  /\ profileError' = Null
  /\ profileResult' = NullUser
  /\ IF ProfileQuery(profileModel) = <<>>
     THEN UNCHANGED <<profileLoading, profileRequests>>
     ELSE /\ Len(profileRequests) < MaxProfileRequests
          /\ profileLoading' = TRUE
          /\ profileRequests' =
               Append(profileRequests,
                      [q |-> ProfileQuery(profileModel), awaited |-> awaited])

\* v-model of the username field: the visitor puts the cursor there and edits
TypeProfileUsername(text) ==
  /\ ProfileStep
  /\ profileStep = 0
  /\ text # profileModel.username
  /\ profileModel' = [profileModel EXCEPT !.username = text]
  /\ usernameFocused' = TRUE
  /\ toast' = Null
  /\ UNCHANGED <<profileStep, profileResult, profileLoading, profileError,
                 profileRequests>>

\* v-model of the email field
TypeProfileEmail(text) ==
  /\ ProfileStep
  /\ profileStep = 0
  /\ ~usernameFocused
  /\ text # profileModel.email
  /\ profileModel' = [profileModel EXCEPT !.email = text]
  /\ toast' = Null
  /\ UNCHANGED <<profileStep, profileResult, profileLoading, profileError,
                 profileRequests, usernameFocused>>

\* @blur (the field loses the cursor) and @keydown.enter.prevent (it keeps
\* it) of the username field
fetchProfile(blur) ==
  /\ ProfileStep
  /\ profileStep = 0
  /\ usernameFocused
  /\ usernameFocused' = ~blur
  /\ fetchProfileCall(FALSE)
  /\ toast' = Null
  /\ UNCHANGED <<profileStep, profileModel>>

\* submit of the user-info form of poner-precio.vue, up to its await: the
\* button and the Enter key of the email field are out of the username field
verfyUserInfoProfile ==
  /\ ProfileStep
  /\ profileStep = 0
  /\ ~usernameFocused
  /\ IF Trim(profileModel.email) = <<>> THEN
       /\ toast' = "EMPTY_EMAIL"
       /\ UNCHANGED <<profileStep, profileResult, profileLoading, profileError,
                      profileRequests>>
     ELSE IF Trim(profileModel.username) = <<>> THEN
       /\ toast' = "EMPTY_USERNAME"
       /\ UNCHANGED <<profileStep, profileResult, profileLoading, profileError,
                      profileRequests>>
     ELSE IF profileResult # NullUser THEN
       /\ profileStep' = StepperNext(profileStep)
       /\ toast' = Null
       /\ UNCHANGED <<profileResult, profileLoading, profileError, profileRequests>>
     ELSE
       /\ fetchProfileCall(TRUE)
          \* fetchProfile returned without a request: the check of line 181
       /\ toast' = IF ProfileQuery(profileModel) = <<>>
                   THEN "PROFILE_NOT_VALIDATED" ELSE Null
       /\ UNCHANGED profileStep
  /\ UNCHANGED <<profileModel, usernameFocused>>

RemoveAt(s, i) == SubSeq(s, 1, i - 1) \o SubSeq(s, i + 1, Len(s))

\* the i-th pending call of fetchProfile resumes with outcome r; where
\* verfyUserInfo awaits the call it resumes right after it
ProfileResponse(i, r) ==
  /\ ProfileStep
  /\ i \in 1..Len(profileRequests)
  /\ r \in ProfileResponses(profileRequests[i].q)
  /\ profileRequests' = RemoveAt(profileRequests, i)
  /\ IF r # <<>>
     THEN profileResult' = r[1] /\ UNCHANGED profileError
     ELSE profileResult' = NullUser /\ profileError' = "PROFILE_ERROR"
  /\ profileLoading' = FALSE
  /\ IF ~profileRequests[i].awaited
     THEN toast' = Null /\ UNCHANGED <<profileStep, usernameFocused>>
     ELSE IF r = <<>>
     THEN toast' = "PROFILE_NOT_VALIDATED" /\ UNCHANGED <<profileStep, usernameFocused>>
     ELSE /\ profileStep' = StepperNext(profileStep)
          /\ toast' = Null
             \* the field leaves the page together with the user-info form
          /\ usernameFocused' = (usernameFocused /\ profileStep' = 0)
  /\ UNCHANGED profileModel

\* the Anterior buttons of the later stages
ProfileStepperPrev ==
  /\ ProfileStep
  /\ profileStep > 0
  /\ profileStep' = StepperPrevious(profileStep)
  /\ toast' = Null
  /\ UNCHANGED <<profileModel, profileResult, profileLoading, profileError,
                 profileRequests, usernameFocused>>

NextProfile ==
  \/ \E text \in ProfileTexts : TypeProfileUsername(text)
  \/ \E text \in ProfileEmails : TypeProfileEmail(text)
  \/ \E blur \in BOOLEAN : fetchProfile(blur)
  \/ verfyUserInfoProfile
  \/ \E i \in 1..MaxProfileRequests :
       \E r \in {<<>>, <<User1>>, <<User2>>} : ProfileResponse(i, r)
  \/ ProfileStepperPrev

SpecProfile == Init /\ [][NextProfile]_vars

\* the price-setting stage with a user picked and the posts loaded
InitPrice ==
  /\ stepperActiveStep = 1
  /\ dataModel = [email |-> EmailOk, username |-> User1.suffix, follows |-> 0,
                  likes |-> 0, views |-> 0, comments |-> 0, user |-> User1,
                  selected_posts |-> <<>>]
  /\ isSelectingSuggestion = FALSE
  /\ selectionError = Null
  /\ postsLoading = FALSE
  /\ postsModel = PostsResponse(User1.suffix, 0, POSTS_LIMIT)
  /\ postsShared = {User1.suffix}
  /\ postsCache = MapSet(<<>>, User1.suffix, PostsResponse(User1.suffix, 0, POSTS_LIMIT))
  /\ postsRequests = EmptyBag
  /\ searchSuggestions = <<>>
  /\ searchLoading = FALSE
  /\ showSuggestions = FALSE
  /\ searchTimeout = NoTimer
  /\ searchAbort = 1
  /\ searchRequests = {}
  /\ searchCache = MapSet(<<>>, User1.suffix, [t |-> DEBOUNCE_MS, data |-> <<User1>>])
  /\ nextCleanup = CACHE_CLEANUP_INTERVAL
  /\ toast = Null
  /\ now = DEBOUNCE_MS
  /\ modalOpen = FALSE
  /\ condiciones = FALSE
  /\ error = ""
  /\ consoleLog = <<>>
  /\ dialogResult = <<>>
  /\ mounted = TRUE
  /\ user = NoAccount
  /\ authLoading = FALSE
  /\ authError = Null
  /\ route = PathPricing
  /\ authCookie = FALSE
  /\ authRequests = EmptyBag
  /\ profileStep = 0
  /\ profileModel = [email |-> <<>>, username |-> <<>>]
  /\ profileResult = NullUser
  /\ profileLoading = FALSE
  /\ profileError = Null
  /\ profileRequests = <<>>
  /\ usernameFocused = FALSE

\* the four sliders over all their ticks
NextPrice == \E m \in Metrics : \E newIndex \in 0..(Len(Ticks(m)) - 1) : MoveSlider(m, newIndex)

SpecPrice == InitPrice /\ [][NextPrice]_vars

\* =================================================================== claims
\* trimmed, leading '@' stripped, lower-cased
NormalizedKey(text) == ToLowerCase(StripAt(Trim(text)))

Users == {User1, User2}

\* ----------------------------------------------------------------------- C1
\* C1: a response to a lookup for query A is never written to the suggestion
\* list once a later query B (long enough to be looked up) has been processed:
\* whenever a response is applied while no newer text waits for its debounce
\* timer, the response answers the query of the text in the field.
C1_StaleResponseNeverApplied ==
  [][\A r \in searchRequests : \A res \in SearchResponses(r.q) :
       ( /\ SearchResponse(r, res)
         /\ searchTimeout = NoTimer
         /\ Len(SearchQuery(dataModel.username)) >= MIN_CHARS )
       => r.q = SearchQuery(dataModel.username)]_vars

\* ----------------------------------------------------------------------- C2
\* the state selectSuggestion leaves the dropdown in
DropdownClosed ==
  /\ dataModel.user # NullUser
  /\ searchTimeout = NoTimer
  /\ ~showSuggestions
  /\ searchSuggestions = <<>>

\* C2: selectSuggestion leaves no debounce timer pending and the dropdown
\* closed and empty, and until the username text is next edited no timer and
\* no search response re-opens the dropdown or fills the suggestion list.
C2_SelectionStopsSearch ==
  [][ /\ (\E item \in Users : selectSuggestion(item)) => DropdownClosed'
      /\ (DropdownClosed /\ dataModel'.username = dataModel.username)
           => (~showSuggestions' /\ searchSuggestions' = <<>>) ]_vars

\* ----------------------------------------------------------------------- C3
\* C3: no lookup is ever pending for a query shorter than MIN_CHARS, and once
\* a text whose query is shorter than MIN_CHARS has been processed (no
\* debounce timer is waiting) the suggestion list is empty.
C3_ShortQueryNoSuggestions ==
  /\ \A r \in searchRequests : Len(r.q) >= MIN_CHARS
  /\ ( /\ dataModel.user = NullUser
       /\ searchTimeout = NoTimer
       /\ Len(SearchQuery(dataModel.username)) < MIN_CHARS )
     => searchSuggestions = <<>>

\* ----------------------------------------------------------------------- C4
\* the search-cache entry of key k is younger than the TTL at time t
FreshEntry(k, t) ==
  k \in DOMAIN searchCache /\ t - searchCache[k].t < SEARCH_CACHE_MS

\* C4: a successful search is stored under its normalized key with its
\* results; the entry stays as stored while it is younger than
\* SEARCH_CACHE_MS; and every lookup whose query normalizes to the key of
\* such an entry sets the suggestion list to the stored results and issues
\* no network call.
C4_CacheHitWithinTTL ==
  [][ /\ \A r \in searchRequests : \A res \in SearchResponses(r.q) :
           SearchResponse(r, res)
             => ( /\ NormalizedKey(r.q) \in DOMAIN searchCache'
                  /\ searchCache'[NormalizedKey(r.q)] = [t |-> now, data |-> res] )
      /\ \A k \in DOMAIN searchCache :
           ( /\ FreshEntry(k, now')
             /\ ~(\E r \in searchRequests : \E res \in SearchResponses(r.q) :
                    SearchResponse(r, res) /\ NormalizedKey(r.q) = k) )
           => (k \in DOMAIN searchCache' /\ searchCache'[k] = searchCache[k])
      /\ ( /\ SearchTimerFires
           /\ FreshEntry(NormalizedKey(searchTimeout.query), now) )
         => ( /\ searchSuggestions' = searchCache[NormalizedKey(searchTimeout.query)].data
              /\ searchRequests' = searchRequests
              /\ searchAbort' = searchAbort ) ]_vars

\* a lookup typed as "@ABC" was served from the entry stored for "abc": the
\* list is shown although no controller was created since the field was cleared
C4_Witness ==
  /\ dataModel.username = TxtAtABC
  /\ searchAbort = NoController
  /\ searchTimeout = NoTimer
  /\ TxtAbc \in DOMAIN searchCache
  /\ searchSuggestions = searchCache[TxtAbc].data
  /\ searchSuggestions # <<>>
  /\ showSuggestions

\* ----------------------------------------------------------------------- C5
\* C5: a lookup that finds an entry of age SEARCH_CACHE_MS or more does not
\* serve it and issues exactly one network call for the query, and a
\* successful response replaces the entry of its key by the new results with
\* the time of the response.
C5_ExpiredEntryRefetched ==
  [][ /\ ( /\ SearchTimerFires
           /\ Len(StripAt(Trim(searchTimeout.query))) >= MIN_CHARS
           /\ NormalizedKey(searchTimeout.query) \in DOMAIN searchCache
           /\ now - searchCache[NormalizedKey(searchTimeout.query)].t >= SEARCH_CACHE_MS )
         => ( /\ searchSuggestions' = searchSuggestions
              /\ Cardinality(searchRequests' \ searchRequests) = 1
              /\ \A r \in searchRequests' \ searchRequests :
                   /\ r.q = StripAt(Trim(searchTimeout.query))
                   /\ r.cacheKey = NormalizedKey(searchTimeout.query)
              /\ searchCache' = searchCache )
      /\ \A r \in searchRequests : \A res \in SearchResponses(r.q) :
           (SearchResponse(r, res) /\ r.cacheKey \in DOMAIN searchCache)
             => ( /\ searchCache'[r.cacheKey].data = res
                  /\ searchCache'[r.cacheKey].t = now
                  /\ searchSuggestions' = res ) ]_vars

\* a lookup is pending for a key whose entry is exactly SEARCH_CACHE_MS old
C5_Witness ==
  \E r \in searchRequests :
    /\ r.cacheKey \in DOMAIN searchCache
    /\ now - searchCache[r.cacheKey].t = SEARCH_CACHE_MS

\* ----------------------------------------------------------------------- C6
\* key of the posts cache for a username text
PostsKey(text) == Trim(StripAt(Trim(text)))

\* what selectSuggestion(item) does to the draft and the suggestion list
SelectionApplied(item) ==
  /\ dataModel'.user = item
  /\ dataModel'.username = item.suffix
  /\ dataModel'.selected_posts = <<>>
  /\ searchSuggestions' = <<>>
  /\ ~showSuggestions'
  /\ dataModel'.email = dataModel.email

\* C6 as claimed: selectSuggestion(item) sets chosenUser and the username,
\* empties the suggestion list, clears selected_posts and leaves the content
\* page empty, in one step.
C6_Original ==
  [][\A item \in Users :
       selectSuggestion(item) => (SelectionApplied(item) /\ postsModel' = EmptyPostsModel)]_vars

\* C6 amended: selectSuggestion(item) sets chosenUser and the username,
\* empties the suggestion list and clears selected_posts in one step, and the
\* content page after that step is empty, or, when the posts cache holds the
\* page of the chosen user, that page with every selected flag false.
C6_SelectionAtomic ==
  [][\A item \in Users :
       selectSuggestion(item) =>
         /\ SelectionApplied(item)
         /\ IF PostsKey(item.suffix) \in DOMAIN postsCache
            THEN LET cached == postsCache[PostsKey(item.suffix)] IN
                 /\ Len(postsModel'.posts) = Len(cached.posts)
                 /\ \A i \in 1..Len(cached.posts) :
                      /\ postsModel'.posts[i].id = cached.posts[i].id
                      /\ ~postsModel'.posts[i].selected
                 /\ postsRequests' = postsRequests
            ELSE postsModel' = EmptyPostsModel]_vars

\* a user was picked whose page came from the posts cache
C6_Witness ==
  /\ dataModel.user = User1
  /\ dataModel.username = User1.suffix
  /\ DropdownClosed
  /\ postsModel.posts # <<>>
  /\ postsShared = {}
  /\ postsRequests = EmptyBag

\* ----------------------------------------------------------------------- C7
\* C7: an edit of the username while a user is chosen drops the chosen user,
\* selected_posts and the content page when the trimmed text differs from the
\* chosen suffix, and leaves all three unchanged when it equals the suffix.
C7_EditInvalidatesSelection ==
  [][\A value \in UsernameTexts :
       (TypeUsername(value) /\ dataModel.user # NullUser) =>
         IF Trim(value) # dataModel.user.suffix
         THEN /\ dataModel'.user = NullUser
              /\ dataModel'.selected_posts = <<>>
              /\ postsModel' = EmptyPostsModel
         ELSE /\ dataModel'.user = dataModel.user
              /\ dataModel'.selected_posts = dataModel.selected_posts
              /\ postsModel' = postsModel]_vars

\* the text was edited to the suffix plus a blank and the order was kept
C7_Witness ==
  /\ dataModel.username = TxtAbcSp
  /\ dataModel.user = User1
  /\ dataModel.selected_posts # <<>>
  /\ postsModel.posts # <<>>

\* ----------------------------------------------------------------------- C8
\* C8: chosenUser is null or a search result, and a step sets it to a new
\* non-null value only by selectSuggestion of an item the dropdown shows.
C8_UserOnlyBySelection ==
  [][ /\ dataModel'.user \in Users \cup {NullUser}
      /\ (dataModel'.user # dataModel.user /\ dataModel'.user # NullUser)
           => ( /\ dataModel'.user \in RenderedSuggestions
                /\ selectSuggestion(dataModel'.user) ) ]_vars

\* the wizard reached the review stage with a picked user
C8_Witness ==
  /\ stepperActiveStep = 2
  /\ dataModel.user = User2

\* ----------------------------------------------------------------------- C9
\* C9: every entry of selected_posts is the snapshot of an item of the
\* content page on display whose selected flag is true.
C9_SelectedPostsSubset ==
  \A i \in 1..Len(dataModel.selected_posts) :
    \E j \in 1..Len(postsModel.posts) :
      /\ postsModel.posts[j].selected
      /\ dataModel.selected_posts[i].url = postsModel.posts[j].link_instagram
      /\ dataModel.selected_posts[i].thumbnail = postsModel.posts[j].thumbnail

\* --------------------------------------------------------------------- C10
\* the email texts that are non-empty and syntactically valid
ValidEmailTexts == {EmailOk}

\* C10: verfyUserInfo leaves UserInfo only with a valid email and a chosen
\* user; an attempt without them changes neither the stage nor the draft nor
\* the content page and starts no posts fetch.
C10_UserInfoGate ==
  [][verfyUserInfo =>
       IF dataModel.email \in ValidEmailTexts /\ dataModel.user # NullUser
       THEN stepperActiveStep = 0 /\ stepperActiveStep' = 1
       ELSE /\ stepperActiveStep' = stepperActiveStep
            /\ dataModel' = dataModel
            /\ postsRequests' = postsRequests
            /\ postsModel' = postsModel
            /\ postsCache' = postsCache]_vars

\* a typed, never picked handle was rejected
C10_Witness ==
  /\ stepperActiveStep = 0
  /\ toast = "SELECT_USER"
  /\ dataModel.email = EmailOk
  /\ dataModel.username = User1.suffix
  /\ dataModel.user = NullUser

\* ---------------------------------------------------------------------- C11
\* the rates of the price list, in cents per thousand
RateCents(m) ==
  CASE m = "follows" -> 10
    [] m = "likes" -> 15
    [] m = "views" -> 5
    [] m = "comments" -> 50

\* sum over the metrics ms of rate * quantity, in units of 1/100000 dollar
RECURSIVE SumPrices(_, _)
SumPrices(ms, dm) ==
  IF ms = {} THEN 0
  ELSE LET m == CHOOSE x \in ms : TRUE
       IN RateCents(m) * dm[m] + SumPrices(ms \ {m}, dm)

\* some item of the page on display has selected = true
SomePostSelected == \E i \in 1..Len(postsModel.posts) : postsModel.posts[i].selected

\* C11: verifyForm moves the wizard from PriceSetting to ReviewOrder only if
\* at least one item of the page is selected and the total is positive; a
\* blocked attempt leaves the stage and selected_posts unchanged.
C11_PriceSettingGate ==
  [][verifyForm =>
       IF SomePostSelected /\ SumPrices(Metrics, dataModel) > 0
       THEN stepperActiveStep = 1 /\ stepperActiveStep' = 2
       ELSE /\ stepperActiveStep' = stepperActiveStep
            /\ dataModel'.selected_posts = dataModel.selected_posts]_vars

\* an attempt with a positive total and no post selected was blocked
C11_Witness ==
  /\ stepperActiveStep = 1
  /\ toast = "SELECT_POST"
  /\ SumPrices(Metrics, dataModel) > 0
  /\ postsModel.posts # <<>>
  /\ ~SomePostSelected

\* ---------------------------------------------------------------------- C12
\* C12: the stage starts at UserInfo, is always one of the three stages, and
\* changes only by a submit of the current stage's form or by prev, one stage
\* at a time; timers, sweeps, responses and the dialog never change it.
C12_StageOnlyByUserAction ==
  /\ stepperActiveStep = 0
  /\ [][ /\ stepperActiveStep' \in {0, 1, 2}
         /\ stepperActiveStep' # stepperActiveStep =>
              \/ verfyUserInfo /\ stepperActiveStep = 0 /\ stepperActiveStep' = 1
              \/ verifyForm /\ stepperActiveStep = 1 /\ stepperActiveStep' = 2
              \/ StepperPrev /\ stepperActiveStep' = stepperActiveStep - 1 ]_vars

\* the wizard went forward to the review and back to the first stage
C12_Witness ==
  /\ stepperActiveStep = 0
  /\ dataModel.selected_posts # <<>>
  /\ dataModel.username = User1.suffix
  /\ dataModel.user = User1

\* ---------------------------------------------------------------------- C13
\* C13: prev is available at PriceSetting and at ReviewOrder whenever the page
\* can be clicked, moves one stage back, and changes nothing else: the draft,
\* the content page with its flags and both caches stay as they were.
C13_PrevChangesOnlyStage ==
  [][ /\ (stepperActiveStep \in {1, 2} /\ ~modalOpen) => ENABLED StepperPrev
      /\ StepperPrev =>
           /\ stepperActiveStep' = stepperActiveStep - 1
           /\ dataModel' = dataModel
           /\ postsModel' = postsModel
           /\ postsCache' = postsCache
           /\ searchCache' = searchCache ]_vars

\* back at PriceSetting from the review, with the selection and the order kept
C13_Witness ==
  /\ stepperActiveStep = 1
  /\ dataModel.selected_posts # <<>>
  /\ SomePostSelected
  /\ SumPrices(Metrics, dataModel) > 0

\* ---------------------------------------------------------------------- C14
\* C14: for every combination of tick values of the four metrics the total is
\* the sum of rate * quantity / 1000 over the metrics, every per-metric price
\* is non-negative, a metric at 0 contributes 0, and the total is <= 0 exactly
\* when all four quantities are 0.
C14_TotalIsSumOfPrices ==
  /\ totalNumeric(dataModel) = SumPrices(Metrics, dataModel)
  /\ \A m \in Metrics :
       /\ calculatePrice(dataModel[m], PriceCents(m)) >= 0
       /\ calculatePrice(dataModel[m], PriceCents(m)) = RateCents(m) * dataModel[m]
       /\ dataModel[m] = 0 => calculatePrice(dataModel[m], PriceCents(m)) = 0
  /\ totalNumeric(dataModel) <= 0 <=> \A m \in Metrics : dataModel[m] = 0

\* every slider at its last tick
C14_Witness ==
  /\ stepperActiveStep = 1
  /\ dataModel.follows = 50000
  /\ dataModel.likes = 10000
  /\ dataModel.views = 50000
  /\ dataModel.comments = 1000
  /\ totalNumeric(dataModel) = 950000

\* ---------------------------------------------------------------------- C15
\* the tick values of metric m
TickValues(m) == {Ticks(m)[i] : i \in 1..Len(Ticks(m))}

\* C15: every quantity of the draft is a tick value of its metric, the index
\* the slider shows for it lies in 0..len(ticks)-1 and is the position of the
\* value, so that value -> index -> value is the identity.
C15_QuantitiesAreTicks ==
  \A m \in Metrics :
    /\ dataModel[m] \in TickValues(m)
    /\ updateIndex(Ticks(m), dataModel[m]) \in 0..(Len(Ticks(m)) - 1)
    /\ Ticks(m)[updateIndex(Ticks(m), dataModel[m]) + 1] = dataModel[m]
    /\ EmittedValue(Ticks(m), updateIndex(Ticks(m), dataModel[m])) = dataModel[m]

\* sliders moved to ticks that are no multiple of the slider step pattern
C15_Witness ==
  /\ dataModel.follows = 250
  /\ updateIndex(Ticks("follows"), dataModel.follows) = 2
  /\ dataModel.comments = 10
  /\ updateIndex(Ticks("comments"), dataModel.comments) = 1

\* ---------------------------------------------------------------------- C16
\* C16: fetchUserPosts with a page of the normalized username in the posts
\* cache shows a copy of that page with every selected flag false and issues
\* no request, whatever flags were toggled on an earlier copy of the page.
C16_CacheHitUnselected ==
  [][(ReloadPosts /\ PostsKey(dataModel.username) \in DOMAIN postsCache) =>
       LET cached == postsCache[PostsKey(dataModel.username)] IN
       /\ Len(postsModel'.posts) = Len(cached.posts)
       /\ \A i \in 1..Len(cached.posts) :
            postsModel'.posts[i] = [cached.posts[i] EXCEPT !.selected = FALSE]
       /\ postsModel'.posts = PostsResponse(PostsKey(dataModel.username), 0, POSTS_LIMIT).posts
       /\ postsModel'.total = cached.total
       /\ postsRequests' = postsRequests ]_vars

\* a reload showed a clean copy while the cached page carries toggled flags
C16_Witness ==
  /\ stepperActiveStep = 1
  /\ postsShared = {}
  /\ postsModel.posts # <<>>
  /\ ~SomePostSelected
  /\ \E k \in DOMAIN postsCache : \E i \in 1..Len(postsCache[k].posts) :
       postsCache[k].posts[i].selected

\* ---------------------------------------------------------------------- C17
\* the notification a failure of the given status is to be reported as
ClassifiedError(statusCode) ==
  CASE statusCode = 404 -> "USER_NOT_FOUND"
    [] statusCode = 429 -> "TOO_MANY_REQUESTS"
    [] OTHER -> "LOAD_POSTS_ERROR"

\* C17: a failed posts fetch is reported as one notification chosen by its
\* status (404, 429, anything else), leaves the posts cache, the content page
\* and the draft as they were, and sets the loading flag to false.
C17_PostsFailureReported ==
  [][\A r \in BagToSet(postsRequests) : \A statusCode \in PostsFailureStatus :
       PostsFailed(r, statusCode) =>
         /\ toast' = ClassifiedError(statusCode)
         /\ postsCache' = postsCache
         /\ postsModel' = postsModel
         /\ dataModel' = dataModel
         /\ stepperActiveStep' = stepperActiveStep
         /\ ~postsLoading']_vars

\* the prefetch of a picked user was refused with status 429
C17_Witness ==
  /\ toast = "TOO_MANY_REQUESTS"
  /\ ~postsLoading
  /\ postsRequests = EmptyBag
  /\ dataModel.user # NullUser
  /\ postsModel = EmptyPostsModel

\* ---------------------------------------------------------------------- C18
\* C18: a successful submit of the user-info form moves to PriceSetting in
\* the same step, whether or not a fetch is pending, and starts a posts fetch
\* for the chosen user if and only if the posts cache has no page for the
\* chosen user's normalized username.
C18_TransitionStartsFetchIfUncached ==
  [][(verfyUserInfo /\ stepperActiveStep' # stepperActiveStep) =>
       LET key == PostsKey(dataModel.user.suffix) IN
       /\ stepperActiveStep' = 1
       /\ postsRequests' # postsRequests <=> key \notin DOMAIN postsCache
       /\ key \notin DOMAIN postsCache =>
            /\ \E r \in BagToSet(postsRequests') :
                 /\ r.username = key
                 /\ postsRequests' = postsRequests (+) SetToBag({r})
            /\ postsLoading'
       /\ postsModel' = postsModel]_vars

\* PriceSetting entered while the fetch the transition started is pending
C18_Witness ==
  /\ stepperActiveStep = 1
  /\ dataModel.user = User1
  /\ postsLoading
  /\ postsRequests # EmptyBag
  /\ postsCache = <<>>
  /\ postsModel = EmptyPostsModel
  /\ toast = Null

\* ---------------------------------------------------------------------- C19
\* the dialog went away in this step
DialogClosed == modalOpen /\ ~modalOpen'

\* C19: the dialog yields true only by Confirm with the acknowledgment
\* checked; Confirm with it unchecked sets the validation message and keeps
\* the dialog open without a result; the console output and the success
\* notification of handleConfirmOrder occur only in the step in which the
\* dialog yields true.
C19_ConfirmNeedsAcknowledgment ==
  [][ /\ (handleConfirm /\ ~condiciones) =>
           /\ modalOpen'
           /\ error' # ""
           /\ dialogResult' = <<>>
           /\ toast' = Null
           /\ consoleLog' = <<>>
      /\ dialogResult' = <<TRUE>> => (handleConfirm /\ condiciones)
      /\ (consoleLog' # <<>> \/ toast' = "ORDER_CONFIRMED") =>
           /\ DialogClosed
           /\ dialogResult' = <<TRUE>>
           /\ condiciones
           /\ handleConfirm
           /\ stepperActiveStep = 2
           /\ toast' = "ORDER_CONFIRMED"
           /\ consoleLog' = <<[email |-> dataModel.email, username |-> dataModel.username,
                               follows |-> dataModel.follows, likes |-> dataModel.likes,
                               views |-> dataModel.views, comments |-> dataModel.comments,
                               total |-> SumPrices(Metrics, dataModel)]>>
      /\ (handleConfirm /\ condiciones) => (DialogClosed /\ toast' = "ORDER_CONFIRMED") ]_vars

\* the order was confirmed through the dialog
C19_Witness ==
  /\ stepperActiveStep = 2
  /\ ~modalOpen
  /\ dialogResult = <<TRUE>>
  /\ toast = "ORDER_CONFIRMED"
  /\ consoleLog # <<>>

\* ---------------------------------------------------------------------- C20
\* C20: when the dialog is declined or cancelled, handleConfirmOrder changes
\* nothing: the draft, the content page and the stage stay as they were, and
\* neither the console output nor the success notification occurs.
C20_DeclineChangesNothing ==
  [][(CancelModal \/ dialogResult' = <<FALSE>>) =>
       /\ DialogClosed
       /\ dialogResult' = <<FALSE>>
       /\ stepperActiveStep = 2
       /\ stepperActiveStep' = stepperActiveStep
       /\ dataModel' = dataModel
       /\ postsModel' = postsModel
       /\ postsCache' = postsCache
       /\ toast' = Null
       /\ consoleLog' = <<>>]_vars

\* the dialog was cancelled with an order in the draft
C20_Witness ==
  /\ stepperActiveStep = 2
  /\ ~modalOpen
  /\ dialogResult = <<FALSE>>
  /\ dataModel.selected_posts # <<>>
  /\ toast = Null
  /\ consoleLog = <<>>

\* ---------------------------------------------------------------------- C21
\* the step completes the pending request r neither with a response nor with
\* a failure: r was aborted
SearchAborted(r) ==
  /\ r \in searchRequests
  /\ r \notin searchRequests'
  /\ ~SearchFailure(r)
  /\ \A res \in SearchResponses(r.q) : ~SearchResponse(r, res)

\* C21: a step that aborts a pending search request raises no notification
\* and leaves the suggestion list as it was, unless the aborting handler is
\* the watcher on a query shorter than WATCH_MIN_CHARS, which empties the list
\* itself; a request that fails in any other way empties the list, raises no
\* notification and no selection error, ends the loading state and leaves the
\* stage and the draft as they were.
C21_SearchFailureSilent ==
  [][\A r \in searchRequests :
       /\ SearchAborted(r) =>
            /\ toast' = Null
            /\ \/ searchSuggestions' = searchSuggestions
               \/ /\ dataModel'.username # dataModel.username
                  /\ Len(SearchQuery(dataModel'.username)) < WATCH_MIN_CHARS
                  /\ searchSuggestions' = <<>>
       /\ SearchFailure(r) =>
            /\ searchSuggestions' = <<>>
            /\ toast' = Null
            /\ selectionError' = selectionError
            /\ ~searchLoading'
            /\ stepperActiveStep' = stepperActiveStep
            /\ dataModel' = dataModel]_vars

\* the only request issued so far is over without a cached response: it failed
C21_Witness ==
  /\ searchAbort # NoController
  /\ searchRequests = {}
  /\ DOMAIN searchCache = {}
  /\ searchSuggestions = <<>>
  /\ showSuggestions
  /\ ~searchLoading

\* ---------------------------------------------------------------------- C22
\* C22: an edit of the username leaves at most the one debounce timer it
\* schedules itself, due DEBOUNCE_MS later for the text just typed; the timer
\* fires no earlier than its due time, for the query of the text as it stands,
\* and is then gone; a search request starts only when the timer fires, at
\* most one per firing, for that query.
C22_LookupAfterDebounce ==
  [][ /\ (\E value \in UsernameTexts : TypeUsername(value)) =>
           \/ searchTimeout' = NoTimer
           \/ /\ searchTimeout'.due = now + DEBOUNCE_MS
              /\ searchTimeout'.query = SearchQuery(dataModel'.username)
      /\ SearchTimerFires =>
           /\ now >= searchTimeout.due
           /\ searchTimeout.query = SearchQuery(dataModel.username)
           /\ searchTimeout' = NoTimer
      /\ (searchRequests' \ searchRequests # {}) =>
           /\ SearchTimerFires
           /\ Cardinality(searchRequests' \ searchRequests) = 1
           /\ \A r \in searchRequests' \ searchRequests :
                r.q = SearchQuery(dataModel.username) ]_vars

\* one debounce window after the last edit the lookup for the text on display
\* is under way and no timer is left
C22_Witness ==
  /\ now = DEBOUNCE_MS
  /\ searchTimeout = NoTimer
  /\ \E r \in searchRequests : r.q = SearchQuery(dataModel.username)
  /\ dataModel.username = TxtAbd

\* ---------------------------------------------------------------------- C23
\* C23: a sweep runs no earlier than CACHE_CLEANUP_INTERVAL after the page was
\* set up, removes every entry of the search cache older than SEARCH_CACHE_MS,
\* keeps unchanged every entry a lookup would still serve, adds none, and
\* changes nothing but the search cache.
C23_SweepEvictsOnlyExpired ==
  [][CacheCleanup =>
       /\ now >= CACHE_CLEANUP_INTERVAL
       /\ DOMAIN searchCache' \subseteq DOMAIN searchCache
       /\ \A k \in DOMAIN searchCache :
            /\ (now - searchCache[k].t > SEARCH_CACHE_MS) => k \notin DOMAIN searchCache'
            /\ CacheHit(searchCache, k, now) =>
                 (k \in DOMAIN searchCache' /\ searchCache'[k] = searchCache[k])
       /\ UNCHANGED <<stepperActiveStep, dataModel, selectionError, postsVars,
                      searchSuggestions, searchLoading, showSuggestions,
                      searchTimeout, searchAbort, searchRequests>> ]_vars

\* right after a sweep the cache holds one entry, written earlier and still
\* fresh
C23_Witness ==
  /\ nextCleanup > CACHE_CLEANUP_INTERVAL
  /\ nextCleanup = now + CACHE_CLEANUP_INTERVAL
  /\ Cardinality(DOMAIN searchCache) = 1
  /\ \A k \in DOMAIN searchCache :
       /\ CacheHit(searchCache, k, now)
       /\ searchCache[k].t < now

\* ---------------------------------------------------------------------- C24
\* C24: once the page is unmounted neither the debounce timer nor the sweep
\* fires, and no step changes the suggestion list, the content page, the
\* search cache or the posts cache.
C24_TeardownStopsEverything ==
  [][~mounted =>
       /\ ~SearchTimerFires
       /\ ~CacheCleanup
       /\ UNCHANGED <<searchSuggestions, postsModel, searchCache, postsCache>>]_vars

\* ---------------------------------------------------------------------- C25
\* the snapshot the claim describes for one item of the page
SnapshotOf(post) ==
  [url |-> post.link_instagram,
   title |-> IF post.caption # "" THEN post.caption
             ELSE IF post.link_instagram # "" THEN post.link_instagram
             ELSE "Post de Instagram",
   thumbnail |-> post.thumbnail]

\* C25: when verifyForm succeeds, selected_posts becomes exactly the list, in
\* page order, of one snapshot per selected item: url is the link, title the
\* caption if non-empty, else the link if non-empty, else the default label,
\* and the thumbnail is copied; nothing of an earlier snapshot is left.
C25_SnapshotOfSelection ==
  [][(verifyForm /\ stepperActiveStep' # stepperActiveStep) =>
       LET idx == SelectedIndexes(postsModel)
           snap == dataModel'.selected_posts
       IN /\ Len(snap) = Cardinality(idx)
          /\ \E f \in [1..Len(snap) -> idx] :
               /\ \A i, j \in 1..Len(snap) : i < j => f[i] < f[j]
               /\ \A i \in 1..Len(snap) : snap[i] = SnapshotOf(postsModel.posts[f[i]])]_vars

\* the review shows the second item of the page alone, titled by its link for
\* want of a caption
C25_Witness ==
  /\ stepperActiveStep = 2
  /\ Len(postsModel.posts) = 2
  /\ SelectedIndexes(postsModel) = {2}
  /\ dataModel.selected_posts = <<[url |-> "l2", title |-> "l2", thumbnail |-> "t2"]>>

\* ---------------------------------------------------------------------- C26
\* C26: whenever a logout request is over, answered with success, answered
\* with 401 or not answered at all, the step that resumes logout() leaves the
\* current user null and the route at /login.
C26_LogoutClearsAndRedirects ==
  [][\A r \in BagToSet(authRequests) : \A reached \in BOOLEAN :
       LogoutResponse(r, reached) =>
         /\ user' = NoAccount
         /\ route' = PathLogin]_vars

\* a logout has just succeeded and left the login page on display with no
\* user, while a second logout request is pending that will find no cookie
C26_Witness ==
  /\ toast = "LOGGED_OUT"
  /\ user = NoAccount
  /\ route = PathLogin
  /\ ~authCookie
  /\ \E r \in BagToSet(authRequests) : r.kind = "logout"

\* ---------------------------------------------------------------------- C27
\* the items of page pm without their selected flags
PageItems(pm) ==
  [i \in 1..Len(pm.posts) |-> [pm.posts[i] EXCEPT !.selected = FALSE]]

\* C27: the content page is empty whenever no user is chosen, and a page that
\* is not empty holds the items of the chosen user's username.
C27_PageBelongsToChosenUser ==
  /\ dataModel.user = NullUser => postsModel.posts = <<>>
  /\ postsModel.posts # <<>> =>
       /\ dataModel.user # NullUser
       /\ PageItems(postsModel)
            = PostsResponse(PostsKey(dataModel.user.suffix), 0, POSTS_LIMIT).posts

\* ---------------------------------------------------------------------- C28
\* C28: in a step that keeps the chosen user and is neither a toggle of an
\* item, nor the reload button, nor a selection from the dropdown, every item
\* of the page on display that was selected is still there and selected.
C28_FlagsOnlyByToggle ==
  [][ ( /\ dataModel.user # NullUser
        /\ dataModel'.user = dataModel.user
        /\ ~ReloadPosts
        /\ ~(\E i \in 1..Len(postsModel.posts) : TogglePost(i))
        /\ ~selectSuggestion(dataModel.user) )
      => \A i \in SelectedIndexes(postsModel) :
           /\ i \in SelectedIndexes(postsModel')
           /\ postsModel'.posts[i].id = postsModel.posts[i].id ]_vars

\* ---------------------------------------------------------------------- C29
\* C29: whenever the wizard is at PriceSetting or ReviewOrder a user is chosen
\* and the email is non-empty and syntactically valid.
C29_LaterStagesHaveUserAndEmail ==
  stepperActiveStep \in {1, 2} =>
    /\ dataModel.user # NullUser
    /\ Trim(dataModel.email) # <<>>
    /\ dataModel.email \in ValidEmailTexts

\* back at PriceSetting from the review while a posts fetch is still pending
C29_Witness ==
  /\ stepperActiveStep = 1
  /\ dataModel.selected_posts # <<>>
  /\ postsRequests # EmptyBag
  /\ dataModel.user = User1
  /\ dataModel.email = EmailOk

\* ---------------------------------------------------------------------- C30
\* C30: whenever the wizard is at ReviewOrder the total is positive and
\* selected_posts is not empty.
C30_ReviewHasTotalAndPosts ==
  stepperActiveStep = 2 =>
    /\ SumPrices(Metrics, dataModel) > 0
    /\ dataModel.selected_posts # <<>>

\* at the review a late posts response has reset the flags of the page: the
\* snapshot and the total of the order stand
C30_Witness ==
  /\ stepperActiveStep = 2
  /\ ~SomePostSelected
  /\ postsModel.posts # <<>>
  /\ dataModel.selected_posts # <<>>
  /\ totalNumeric(dataModel) > 0

\* ---------------------------------------------------------------------- C31
\* C31: the search loading flag is true whenever a lookup that has not been
\* aborted is pending.
C31_LoadingWhilePending ==
  searchRequests # {} => searchLoading

\* ---------------------------------------------------------------------- C32
\* C32: at most one search request that has not been aborted is pending, and
\* it carries the signal of the current controller: a request issued while
\* another is pending has aborted that one.
C32_OneLookupInFlight ==
  /\ Cardinality(searchRequests) <= 1
  /\ \A r \in searchRequests : r.ctl = searchAbort

\* a lookup is pending and the loading flag is off with nothing cached: the
\* lookup took the place of one it aborted
C32_Witness ==
  /\ Cardinality(searchRequests) = 1
  /\ ~searchLoading
  /\ DOMAIN searchCache = {}
  /\ searchTimeout = NoTimer

\* ---------------------------------------------------------------------- C33
\* C33: whenever a user is chosen the trimmed username text is the chosen
\* user's suffix, and so is the username that fetchUserPosts would send and
\* use as key of the posts cache.
C33_UsernameIsChosenHandle ==
  dataModel.user # NullUser =>
    /\ Trim(dataModel.username) = dataModel.user.suffix
    /\ Trim(normalizedUsername(dataModel)) = dataModel.user.suffix

\* at the price-setting stage the field holds the handle followed by a blank
\* and the page of the chosen user is on display
C33_Witness ==
  /\ stepperActiveStep = 1
  /\ dataModel.user = User1
  /\ dataModel.username = TxtAbcSp
  /\ postsModel.posts # <<>>
  /\ DOMAIN postsCache = {TxtAbc}

\* ---------------------------------------------------------------------- C34
\* C34: a lookup that fails or is aborted leaves the search cache as it was;
\* an entry is created or changed only by a successful response, which writes
\* the entry of its own key; and a lookup for a query with no fresh entry,
\* for instance after a failed refresh, goes to the network again.
C34_OnlySuccessCached ==
  [][ /\ \A r \in searchRequests :
           (SearchFailure(r) \/ SearchAborted(r)) => searchCache' = searchCache
      /\ \A k \in DOMAIN searchCache' :
           (k \notin DOMAIN searchCache \/ searchCache'[k] # searchCache[k]) =>
             \E r \in searchRequests : \E res \in SearchResponses(r.q) :
               /\ SearchResponse(r, res)
               /\ r.cacheKey = k
               /\ searchCache'[k] = [t |-> now, data |-> res]
      /\ ( /\ SearchTimerFires
           /\ Len(SearchQuery(searchTimeout.query)) >= MIN_CHARS
           /\ ~CacheHit(searchCache, NormalizedKey(searchTimeout.query), now) )
         => /\ \E r \in searchRequests' \ searchRequests :
                 r.q = SearchQuery(searchTimeout.query)
            /\ searchSuggestions' = searchSuggestions ]_vars

\* the refresh of an entry that had reached its lifetime has failed: the entry
\* is still there, still stale, and nothing is on display for the text
C34_Witness ==
  /\ searchRequests = {}
  /\ searchTimeout = NoTimer
  /\ searchAbort # NoController
  /\ searchSuggestions = <<>>
  /\ ~searchLoading
  /\ NormalizedKey(dataModel.username) \in DOMAIN searchCache
  /\ now - searchCache[NormalizedKey(dataModel.username)].t >= SEARCH_CACHE_MS

\* ---------------------------------------------------------------------- C35
\* C35: the reload button, pressed while the posts cache holds the page of
\* the chosen user, issues no request, leaves the cache as it is and shows
\* that page with every selected flag false; pressed while the cache has no
\* such page it issues one request for the user and leaves the page on
\* display; and no step ever removes an entry of the posts cache.
C35_ReloadServedFromCache ==
  [][ /\ ReloadPosts =>
           LET key == Trim(normalizedUsername(dataModel)) IN
           IF key \in DOMAIN postsCache
           THEN /\ postsRequests' = postsRequests
                /\ postsCache' = postsCache
                /\ Len(postsModel'.posts) = Len(postsCache[key].posts)
                /\ \A i \in 1..Len(postsModel'.posts) :
                     /\ ~postsModel'.posts[i].selected
                     /\ postsModel'.posts[i].id = postsCache[key].posts[i].id
           ELSE /\ postsRequests' =
                     postsRequests (+) SetToBag({[username |-> key, skip |-> postsModel.skip,
                                                  limit |-> postsModel.limit]})
                /\ postsModel' = postsModel
      /\ DOMAIN postsCache \subseteq DOMAIN postsCache' ]_vars

\* back from the review the page was reloaded from the cache: nothing is
\* selected on display and no request is pending, while the cached page still
\* carries the flag set before
C35_Witness ==
  /\ stepperActiveStep = 1
  /\ dataModel.selected_posts # <<>>
  /\ postsRequests = EmptyBag
  /\ postsShared = {}
  /\ postsModel.posts # <<>>
  /\ ~SomePostSelected
  /\ \E i \in 1..Len(postsCache[PostsKey(dataModel.username)].posts) :
       postsCache[PostsKey(dataModel.username)].posts[i].selected

\* ---------------------------------------------------------------------- C36
\* C36: the step in which the dialog yields true writes the order to the
\* console once and adds the success notification, closes the dialog, and
\* leaves the draft and the stage as they were: the wizard is at ReviewOrder
\* with the confirm button available again; the console is written in no
\* other step.
C36_AcceptKeepsOrder ==
  [][ /\ dialogResult' = <<TRUE>> =>
           /\ consoleLog' = <<OrderLog(dataModel)>>
           /\ toast' = "ORDER_CONFIRMED"
           /\ dataModel' = dataModel
           /\ stepperActiveStep = 2
           /\ stepperActiveStep' = 2
           /\ mounted'
           /\ ~modalOpen'
      /\ consoleLog' # <<>> => dialogResult' = <<TRUE>> ]_vars

\* the order of the second user was accepted and the review is still on
\* display with the order as logged
C36_Witness ==
  /\ dialogResult = <<TRUE>>
  /\ Len(consoleLog) = 1
  /\ consoleLog[1].total = totalNumeric(dataModel)
  /\ consoleLog[1].username = dataModel.username
  /\ dataModel.user = User2
  /\ stepperActiveStep = 2
  /\ ~modalOpen

\* ---------------------------------------------------------------------- C37
\* C37: a navigation to a path that starts with /dashboard ends there if a
\* user is signed in at that moment and at /login otherwise; a navigation to
\* /login or /signup with a user signed in ends at /dashboard; every other
\* navigation ends at its target.
C37_RouteGuard ==
  [][\A to \in Paths :
       Navigate(to) =>
         route' = IF StartsWith(to, PathDashboard)
                  THEN (IF user # NoAccount THEN to ELSE PathLogin)
                  ELSE IF to \in {PathLogin, PathSignup} /\ user # NoAccount
                  THEN PathDashboard
                  ELSE to]_vars

\* the profile page under /dashboard is on display for a user whose cookie
\* has expired: the guard looked at the current-user state only
C37_Witness ==
  /\ route = PathProfile
  /\ user = DemoUser
  /\ ~authCookie
  /\ authRequests = EmptyBag

\* ---------------------------------------------------------------------- C38
\* C38: in the blur-validated wizard the stepper leaves the user-info stage
\* only with a profileResult that is non-null and is the profile of the
\* handle that stands in the username field at that moment.
C38_AdvanceWithCurrentProfile ==
  [][profileStep = 0 /\ profileStep' # 0 =>
       /\ profileResult' # NullUser
       /\ profileResult' = ProfileOf(ProfileQuery(profileModel'))]_vars

====
